---- MODULE Spec2Model ----
(***************************************************************************)
(* Model of price-summary/vndirect.py: VNDirectClient.                     *)
(*                                                                         *)
(* One behaviour is one client: its construction parameters, the cache     *)
(* directory it finds on disk, and one call of get_data().  Each position  *)
(* of the ticker list runs _fetch_ticker_data (cache lookup, HTTP attempts *)
(* with retries, cache write); in parallel mode the fetches interleave, in *)
(* sequential mode fetch i+1 starts when result i has been processed.      *)
(*                                                                         *)
(* Python values: None is the record PyNone, a JSON list is PyList(items)  *)
(* with items a sequence of records (one per trading day).  An upstream    *)
(* record is a TLA+ record; a malformed one lacks the "date" field.        *)
(***************************************************************************)
EXTENDS Integers, Sequences, FiniteSets, TLC

VARIABLES
    tickers,        \* self.tickers
    size,           \* self.size
    use_cache,      \* self.use_cache
    cache_expiry,   \* self.cache_expiry (hours)
    max_retries,    \* self.max_retries
    use_parallel,   \* get_data(use_parallel=...)
    files,          \* the cache directory: cache path -> file
    files0,         \* the cache directory as get_data found it
    now,            \* wall clock, in hours
    pc,             \* per list position: where that _fetch_ticker_data call is
    attempt,        \* per list position: the loop variable `attempt`
    pend,           \* per list position: the data being written to the cache
    res,            \* per list position: what _fetch_ticker_data returned
    hist,           \* per list position: what the environment did to that call
    writers,        \* per cache path: the list positions that opened it for writing
    cur,            \* get_data: position of the next result to process
    all_data,       \* get_data: all_data
    failed_tickers, \* get_data: failed_tickers
    mpc,            \* get_data: "fetching", "returned" or "raised"
    exc,            \* get_data: the exception raised, "None" if none
    raw_data,       \* self.raw_data
    ipc,            \* __init__: "new", "dirs", "constructed" or "raised"
    init_error,     \* __init__: the exception raised, "None" if none
    cache_dir,      \* whether the directory self.cache_dir exists
    cache_dir0,     \* ... and whether it existed before __init__
    ohlcv_df,       \* self.ohlcv_df
    returns_data,   \* self.returns_data
    call,           \* the last pipeline method called, and how it ended
    ran,            \* the pipeline methods that have returned normally so far
    vn_args,        \* get_stock_data_vnstock: tickers, start_date, end_date
    upstream,       \* the provider: its table format, trading days, failing requests
    vn,             \* get_stock_data_vnstock: its position and local variables
    vn_result,      \* get_stock_data_vnstock: what the last call returned or raised
    vn_runs,        \* the results of the get_stock_data_vnstock calls so far
    sc_args,        \* safe_api_call: max_retries, whether stock_obj has a symbol
    sc,             \* safe_api_call: its position, `attempt` and the exception e
    sc_log,         \* safe_api_call: the provider calls and sleeps so far
    sc_result       \* safe_api_call: what it returned or raised

\* __init__ and the cache directory
ctor == <<ipc, init_error, cache_dir, cache_dir0>>
\* the pipeline stages after get_data
stages == <<ohlcv_df, returns_data, call, ran>>
\* the functions of vnstock_helpers
vnstock == <<vn_args, upstream, vn, vn_result, vn_runs>>
safecall == <<sc_args, sc, sc_log, sc_result>>
helpers == <<vnstock, safecall>>

vars == <<tickers, size, use_cache, cache_expiry, max_retries, use_parallel,
          files, files0, now, pc, attempt, pend, res, hist, writers, cur, all_data,
          failed_tickers, mpc, exc, raw_data, ctor, stages, helpers>>

\* what get_data and its fetches assign (files0: the directory as found)
getdata == <<files, now, pc, attempt, pend, res, hist, writers, cur,
             all_data, failed_tickers, mpc, exc, raw_data>>

\* the client: everything but the functions of vnstock_helpers
client == <<tickers, size, use_cache, cache_expiry, max_retries, use_parallel,
            files0, ctor, stages, getdata>>

\* What _fetch_ticker_data and get_data never assign.
config == <<tickers, size, use_cache, cache_expiry, max_retries, use_parallel,
            files0, ctor, stages, helpers>>

(***************************************************************************)
(* Bounds of the model.                                                    *)
(***************************************************************************)
MaxTickers == 2     \* longest ticker list
MaxRetries == 2     \* largest max_retries
MaxTime == 2        \* last hour the clock reaches

TickerNames == {"AAA", "BBB"}
Sizes == {1, 2}

(***************************************************************************)
(* Python values.                                                          *)
(***************************************************************************)
PyNone == [tag |-> "None"]
PyList(items) == [tag |-> "list", items |-> items]
IsNone(v) == v.tag = "None"
\* Python truthiness of an Optional[List]: None and [] are falsy.
Truthy(v) == v.tag = "list" /\ Len(v.items) > 0

\* A missing float value.
NaN == [nan |-> TRUE]

\* One upstream record of ticker t for trading day d, in version v of the
\* upstream data; Malformed lacks the date field.
Rec(t, d, v) ==
    [code |-> t, date |-> d, open |-> v, high |-> v + 1, low |-> v - 1,
     close |-> v, adClose |-> v, nmVolume |-> 100 * v]
Malformed(t, v) ==
    [code |-> t, open |-> v, high |-> v + 1, low |-> v - 1,
     close |-> v, adClose |-> v, nmVolume |-> 100 * v]

\* The payloads the upstream API may serve for ticker t ("data" of the body).
GoodData(t) == PyList(<<Rec(t, "2024-01-02", 10), Rec(t, "2024-01-03", 11)>>)
OldData(t) == PyList(<<Rec(t, "2024-01-02", 9)>>)
NoDateData(t) == PyList(<<Malformed(t, 10)>>)
EmptyData == PyList(<<>>)

(***************************************************************************)
(* What one HTTP attempt can end in.                                       *)
(***************************************************************************)
Outcomes == {"ok", "nodate", "empty", "non200", "reqexc", "badjson"}
\* A 200 response whose body res.json() or response_data.get cannot use.
\* What res.json() raises on a body that is not JSON depends on the installed
\* requests, which the repository does not pin: json.JSONDecodeError, a
\* ValueError ("badjson"), or requests.exceptions.JSONDecodeError, a
\* RequestException ("jsonreqexc").  A body that is JSON but not an object
\* makes response_data.get raise AttributeError ("nonobject").
JsonOutcomes == {"jsonreqexc", "nonobject"}
\* the attempt raised a requests.exceptions.RequestException (line 295)
RaisesRequestException(o) == o \in {"reqexc", "jsonreqexc"}
\* the attempt raised an exception of another class (line 301)
RaisesOther(o) == o \in {"badjson", "nonobject"}
\* status code of the response (0: no response, requests.get raised)
StatusOf(o) == IF o = "non200" THEN 500 ELSE IF o = "reqexc" THEN 0 ELSE 200
\* response_data.get("data", []) of a 200 response with a JSON body
BodyData(t, o) ==
    IF o = "ok" THEN GoodData(t)
    ELSE IF o = "nodate" THEN NoDateData(t)
    ELSE EmptyData

(***************************************************************************)
(* Cache files.  A file has a modification time and a text; the text is a  *)
(* JSON document, or bytes json.load cannot parse (a file being written,   *)
(* a partial write, foreign bytes).                                        *)
(***************************************************************************)
NoFile == [exists |-> FALSE, mtime |-> 0, text |-> [kind |-> "none"]]
File(m, txt) == [exists |-> TRUE, mtime |-> m, text |-> txt]
TornText == [kind |-> "torn"]
GarbageText == [kind |-> "garbage"]
\* json.dump(data, f): the text of a JSON-native value
JsonDump(v) == [kind |-> "json", value |-> v]
\* json.load(f): the value, or an exception
JsonParses(txt) == txt.kind = "json"
JsonLoad(txt) == txt.value

CachePaths == TickerNames \X Sizes

(***************************************************************************)
(* The cache store.                                                        *)
(***************************************************************************)
\* Mutant of GetCachePath: the file name leaves the size out.
GetCachePathTickerOnly(ticker, sz) == <<ticker, 1>>

\* _get_cache_path: os.path.join(cache_dir, f"{ticker}_size_{size}.json"),
\* the file name as its two variable parts (the ticker has a fixed length
\* and the size is printed in decimal, so the parts determine the name and
\* the name the parts).
GetCachePath(ticker, sz) == <<ticker, sz>>

\* Mutant of IsCacheValid: the comparison with the expiry time is inclusive.
IsCacheValidInclusive(file, expiry, t) ==
    IF ~file.exists THEN FALSE
    ELSE IF expiry = 0 THEN TRUE
    ELSE file.mtime >= t - expiry

\* _is_cache_valid, with the clock and the file's mtime in hours:
\* file_datetime > datetime.now() - timedelta(hours=cache_expiry)
IsCacheValid(file, expiry, t) ==
    IF ~file.exists THEN FALSE
    ELSE IF expiry = 0 THEN TRUE
    ELSE file.mtime > t - expiry

\* Mutant of LoadFromCache: an empty cached list is reported as no cache.
LoadFromCacheNonEmpty(uc, expiry, file, t, ioerr) ==
    IF ~uc THEN PyNone
    ELSE IF ~IsCacheValid(file, expiry, t) THEN PyNone
    ELSE IF ioerr \/ ~JsonParses(file.text) THEN PyNone
    ELSE IF ~Truthy(JsonLoad(file.text)) THEN PyNone
    ELSE JsonLoad(file.text)

\* Mutant of LoadFromCache: a file that cannot be read or parsed counts as
\* an empty cached list.
LoadFromCacheUnreadableEmpty(uc, expiry, file, t, ioerr) ==
    IF ~uc THEN PyNone
    ELSE IF ~IsCacheValid(file, expiry, t) THEN PyNone
    ELSE IF ioerr \/ ~JsonParses(file.text) THEN EmptyData
    ELSE JsonLoad(file.text)

\* _load_from_cache: the cached value, or None.  ioerr: open()/read() raises.
LoadFromCache(uc, expiry, file, t, ioerr) ==
    IF ~uc THEN PyNone
    ELSE IF ~IsCacheValid(file, expiry, t) THEN PyNone
    ELSE IF ioerr \/ ~JsonParses(file.text) THEN PyNone
    ELSE JsonLoad(file.text)

\* _save_to_cache, first half: open(cache_path, 'w') truncates the file.
\* ok = FALSE: open raises, the exception is swallowed, the file is untouched.
SaveOpen(file, t, ok) == IF ok THEN File(t, TornText) ELSE file

\* Mutant of SaveDump: the whole response body is dumped, not its "data".
SaveDumpBody(data, t, ok) ==
    IF ok THEN File(t, JsonDump([tag |-> "dict", data |-> data]))
    ELSE File(t, TornText)

\* _save_to_cache, second half: json.dump(data, f) and close.
\* ok = FALSE: the write raises part-way (swallowed), the file stays partial.
SaveDump(data, t, ok) == IF ok THEN File(t, JsonDump(data)) ELSE File(t, TornText)

(***************************************************************************)
(* _fetch_ticker_data.                                                     *)
(***************************************************************************)
\* What the function returns: a (ticker, data, error) tuple, or nothing at
\* all when control falls off the end of the retry loop.
Tuple(t, data, error) == [kind |-> "tuple", ticker |-> t, data |-> data, error |-> error]
NoReturn == [kind |-> "none"]
Pending == [kind |-> "pending"]

\* Mutant of AfterAttempt: the retry test is off by one (attempt < max_retries).
AfterAttemptOffByOne(t, att, mr, o) ==
    IF RaisesRequestException(o) THEN
        IF att < mr THEN [next |-> "retry"]
        ELSE [next |-> "return", result |-> Tuple(t, PyNone, "Request error")]
    ELSE IF StatusOf(o) # 200 THEN
        IF att < mr THEN [next |-> "retry"]
        ELSE [next |-> "return", result |-> Tuple(t, PyNone, "HTTP error")]
    ELSE IF RaisesOther(o) THEN
        [next |-> "return", result |-> Tuple(t, PyNone, "Unexpected error")]
    ELSE IF ~Truthy(BodyData(t, o)) THEN
        [next |-> "return", result |-> Tuple(t, PyNone, "No data available")]
    ELSE [next |-> "cache", result |-> Tuple(t, BodyData(t, o), "None")]

\* Mutant of AfterAttempt: an empty payload is retried like a failed request.
AfterAttemptRetryEmpty(t, att, mr, o) ==
    IF RaisesRequestException(o) THEN
        IF att < mr - 1 THEN [next |-> "retry"]
        ELSE [next |-> "return", result |-> Tuple(t, PyNone, "Request error")]
    ELSE IF StatusOf(o) # 200 THEN
        IF att < mr - 1 THEN [next |-> "retry"]
        ELSE [next |-> "return", result |-> Tuple(t, PyNone, "HTTP error")]
    ELSE IF RaisesOther(o) THEN
        [next |-> "return", result |-> Tuple(t, PyNone, "Unexpected error")]
    ELSE IF ~Truthy(BodyData(t, o)) THEN
        IF att < mr - 1 THEN [next |-> "retry"]
        ELSE [next |-> "return", result |-> Tuple(t, PyNone, "No data available")]
    ELSE [next |-> "cache", result |-> Tuple(t, BodyData(t, o), "None")]

\* Mutant of AfterAttempt: an exception of another class is retried like a
\* RequestException.
AfterAttemptRetryOther(t, att, mr, o) ==
    IF RaisesRequestException(o) THEN
        IF att < mr - 1 THEN [next |-> "retry"]
        ELSE [next |-> "return", result |-> Tuple(t, PyNone, "Request error")]
    ELSE IF StatusOf(o) # 200 THEN
        IF att < mr - 1 THEN [next |-> "retry"]
        ELSE [next |-> "return", result |-> Tuple(t, PyNone, "HTTP error")]
    ELSE IF RaisesOther(o) THEN
        IF att < mr - 1 THEN [next |-> "retry"]
        ELSE [next |-> "return", result |-> Tuple(t, PyNone, "Unexpected error")]
    ELSE IF ~Truthy(BodyData(t, o)) THEN
        [next |-> "return", result |-> Tuple(t, PyNone, "No data available")]
    ELSE [next |-> "cache", result |-> Tuple(t, BodyData(t, o), "None")]

\* The body of the retry loop for one attempt whose HTTP exchange ended in o:
\* retry (sleep, next attempt), return a result, or cache-and-return.
AfterAttempt(t, att, mr, o) ==
    IF RaisesRequestException(o) THEN
        IF att < mr - 1 THEN [next |-> "retry"]
        ELSE [next |-> "return", result |-> Tuple(t, PyNone, "Request error")]
    ELSE IF StatusOf(o) # 200 THEN
        IF att < mr - 1 THEN [next |-> "retry"]
        ELSE [next |-> "return", result |-> Tuple(t, PyNone, "HTTP error")]
    ELSE IF RaisesOther(o) THEN
        [next |-> "return", result |-> Tuple(t, PyNone, "Unexpected error")]
    ELSE IF ~Truthy(BodyData(t, o)) THEN
        [next |-> "return", result |-> Tuple(t, PyNone, "No data available")]
    ELSE [next |-> "cache", result |-> Tuple(t, BodyData(t, o), "None")]

\* What happened to one call so far: the cache file as the lookup found it,
\* the HTTP GETs issued and the outcome of the last, the sleeps, and how far
\* the cache write got ("none", "open", "open failed", "dump failed", "saved").
NoHistory ==
    [load |-> [done |-> FALSE, file |-> NoFile, at |-> 0, ioerr |-> FALSE],
     gets |-> 0, sleeps |-> 0, last |-> "none", save |-> "none"]

N == Len(tickers)
Parallel == use_parallel /\ Len(tickers) > 1

\* The call enters: cached_data = self._load_from_cache(ticker); a hit
\* returns, a miss enters the retry loop (which range(max_retries) may
\* leave empty).
LoadStep(i, ioerr) ==
    /\ mpc = "fetching"
    /\ pc[i] = "load"
    /\ LET t == tickers[i]
           file == files[GetCachePath(t, size)]
           cached == LoadFromCache(use_cache, cache_expiry, file, now, ioerr)
       IN  /\ ioerr => (use_cache /\ IsCacheValid(file, cache_expiry, now))
           /\ hist' = [hist EXCEPT ![i].load =
                         [done |-> TRUE, file |-> file, at |-> now, ioerr |-> ioerr]]
           /\ IF ~IsNone(cached) THEN
                  /\ res' = [res EXCEPT ![i] = Tuple(t, cached, "None")]
                  /\ pc' = [pc EXCEPT ![i] = "done"]
              ELSE IF max_retries <= 0 THEN
                  /\ res' = [res EXCEPT ![i] = NoReturn]
                  /\ pc' = [pc EXCEPT ![i] = "done"]
              ELSE
                  /\ res' = res
                  /\ pc' = [pc EXCEPT ![i] = "attempt"]
    /\ UNCHANGED <<config, files, now, attempt, pend, writers, cur, all_data,
                   failed_tickers, mpc, exc, raw_data>>

\* One iteration of the retry loop: requests.get, then the handling of its
\* outcome o, up to and including open() of the cache file.
HttpAttempt(i, o, openOk) ==
    /\ mpc = "fetching"
    /\ pc[i] = "attempt"
    /\ LET t == tickers[i]
           path == GetCachePath(t, size)
           a == AfterAttempt(t, attempt[i], max_retries, o)
           got == [hist[i] EXCEPT !.gets = @ + 1, !.last = o]
       IN  /\ ~openOk => (a.next = "cache" /\ use_cache)
           /\ IF a.next = "retry" THEN
                  /\ hist' = [hist EXCEPT ![i] = [got EXCEPT !.sleeps = @ + 1]]
                  /\ attempt' = [attempt EXCEPT ![i] = @ + 1]
                  /\ UNCHANGED <<pc, res, pend, files, writers>>
              ELSE IF a.next = "return" \/ ~use_cache THEN
                  /\ hist' = [hist EXCEPT ![i] = got]
                  /\ res' = [res EXCEPT ![i] = a.result]
                  /\ pc' = [pc EXCEPT ![i] = "done"]
                  /\ UNCHANGED <<attempt, pend, files, writers>>
              ELSE
                  /\ hist' = [hist EXCEPT ![i] =
                                [got EXCEPT !.save = IF openOk THEN "open" ELSE "open failed"]]
                  /\ files' = [files EXCEPT ![path] = SaveOpen(@, now, openOk)]
                  /\ writers' = IF openOk THEN [writers EXCEPT ![path] = @ \cup {i}]
                                ELSE writers
                  /\ IF openOk THEN
                         /\ pend' = [pend EXCEPT ![i] = a.result.data]
                         /\ pc' = [pc EXCEPT ![i] = "dump"]
                         /\ res' = res
                     ELSE
                         /\ pend' = pend
                         /\ pc' = [pc EXCEPT ![i] = "done"]
                         /\ res' = [res EXCEPT ![i] = a.result]
                  /\ UNCHANGED attempt
    /\ UNCHANGED <<config, now, cur, all_data, failed_tickers, mpc, exc, raw_data>>

\* json.dump into the open cache file, close, and `return ticker, data, None`.
DumpStep(i, ok) ==
    /\ mpc = "fetching"
    /\ pc[i] = "dump"
    /\ LET t == tickers[i]
           path == GetCachePath(t, size)
       IN  /\ files' = [files EXCEPT ![path] = SaveDump(pend[i], now, ok)]
           /\ hist' = [hist EXCEPT ![i].save = IF ok THEN "saved" ELSE "dump failed"]
           /\ res' = [res EXCEPT ![i] = Tuple(t, pend[i], "None")]
           /\ pc' = [pc EXCEPT ![i] = "done"]
    /\ UNCHANGED <<config, now, attempt, pend, writers, cur, all_data,
                   failed_tickers, mpc, exc, raw_data>>

(***************************************************************************)
(* get_data.                                                               *)
(***************************************************************************)
\* pd.to_datetime of one date string
\* (a Timestamp as its day number, counted from 2023-12-31)
DayNumber(d) == IF d = "2024-01-02" THEN 2 ELSE IF d = "2024-01-03" THEN 3 ELSE 1
ToDatetime(d) == <<"Timestamp", DayNumber(d)>>
NaT == <<"NaT", 0>>

\* df_ticker["date"] raises KeyError unless some record has a "date" key
HasDateColumn(data) == \E k \in 1..Len(data.items) : "date" \in DOMAIN data.items[k]

\* pd.DataFrame(data) with df["date"] = pd.to_datetime(df["date"]): one row
\* per record and one column per key of any record; a record without a
\* date gets NaT, without another key NaN.
Frame(data) ==
    LET columns == UNION {DOMAIN data.items[k] : k \in 1..Len(data.items)}
    IN  [k \in 1..Len(data.items) |->
            LET r == data.items[k]
            IN  [c \in columns |->
                    IF c = "date"
                    THEN (IF c \in DOMAIN r THEN ToDatetime(r[c]) ELSE NaT)
                    ELSE (IF c \in DOMAIN r THEN r[c] ELSE NaN)]]

\* pd.concat(all_data, ignore_index=True)
RECURSIVE Concat(_)
Concat(frames) ==
    IF frames = <<>> THEN <<>> ELSE Head(frames) \o Concat(Tail(frames))

\* Mutant of ProcessResult: a failed ticker aborts the whole call.
ProcessResultAbort(t, r, ad, ft) ==
    IF r.kind = "none" THEN
        [raises |-> "TypeError", all_data |-> ad, failed_tickers |-> ft]
    ELSE IF Truthy(r.data) THEN
        IF ~HasDateColumn(r.data) THEN
            [raises |-> "KeyError", all_data |-> ad, failed_tickers |-> ft]
        ELSE [raises |-> "None", all_data |-> Append(ad, Frame(r.data)),
              failed_tickers |-> ft]
    ELSE [raises |-> "ValueError", all_data |-> ad, failed_tickers |-> ft]

\* The body of the loop over results for one result r of ticker t, given
\* the lists built so far: the lists after it, or the exception it raises.
ProcessResult(t, r, ad, ft) ==
    IF r.kind = "none" THEN
        \* `ticker, data, error = None` cannot be unpacked
        [raises |-> "TypeError", all_data |-> ad, failed_tickers |-> ft]
    ELSE IF Truthy(r.data) THEN
        IF ~HasDateColumn(r.data) THEN
            [raises |-> "KeyError", all_data |-> ad, failed_tickers |-> ft]
        ELSE [raises |-> "None", all_data |-> Append(ad, Frame(r.data)),
              failed_tickers |-> ft]
    ELSE [raises |-> "None", all_data |-> ad,
          failed_tickers |-> Append(ft, <<t, r.error>>)]

\* get_data processes the result at position cur: in parallel mode once
\* executor.map has delivered every result, in sequential mode right after
\* that ticker's fetch, which is followed by the next ticker's fetch.
Collect ==
    /\ mpc = "fetching"
    /\ cur <= N
    /\ pc[cur] = "done"
    /\ Parallel => \A j \in 1..N : pc[j] = "done"
    /\ LET p == ProcessResult(tickers[cur], res[cur], all_data, failed_tickers)
       IN  IF p.raises # "None" THEN
               /\ mpc' = "raised"
               /\ exc' = p.raises
               /\ UNCHANGED <<cur, all_data, failed_tickers, pc>>
           ELSE
               /\ all_data' = p.all_data
               /\ failed_tickers' = p.failed_tickers
               /\ cur' = cur + 1
               /\ pc' = IF ~Parallel /\ cur < N
                        THEN [pc EXCEPT ![cur + 1] = "load"] ELSE pc
               /\ UNCHANGED <<mpc, exc>>
    /\ UNCHANGED <<config, files, now, attempt, pend, res, hist, writers, raw_data>>

\* After the loop: raise if nothing was collected, else store and return
\* the combined table.
\* Mutant of Finish: a get_data that found no data clears raw_data.
FinishClearsRawData ==
    /\ mpc = "fetching"
    /\ cur = N + 1
    /\ IF all_data = <<>> THEN
           /\ mpc' = "raised"
           /\ exc' = "ValueError: Could not retrieve data for any ticker"
           /\ raw_data' = PyNone
       ELSE
           /\ mpc' = "returned"
           /\ exc' = exc
           /\ raw_data' = PyList(Concat(all_data))
    /\ UNCHANGED <<config, files, now, pc, attempt, pend, res, hist, writers, cur,
                   all_data, failed_tickers>>

Finish ==
    /\ mpc = "fetching"
    /\ cur = N + 1
    /\ IF all_data = <<>> THEN
           /\ mpc' = "raised"
           /\ exc' = "ValueError: Could not retrieve data for any ticker"
           /\ raw_data' = raw_data
       ELSE
           /\ mpc' = "returned"
           /\ exc' = exc
           /\ raw_data' = PyList(Concat(all_data))
    /\ UNCHANGED <<config, files, now, pc, attempt, pend, res, hist, writers, cur,
                   all_data, failed_tickers>>

\* The sequential branch of get_data as a function: the outcome of fetching
\* and processing positions k..N in order, from cache directory sim and the
\* lists ad and ft, every fetch that misses the cache getting the HTTP
\* responses the call at that position got in this run (so it returns what
\* that call returned) and no file operation failing.  Not defined when a
\* fetch needs responses its position did not receive in this run.
RECURSIVE SeqGetData(_, _, _, _)
SeqGetData(k, sim, ad, ft) ==
    IF k > N THEN
        IF ad = <<>> THEN
            [defined |-> TRUE, mpc |-> "raised",
             exc |-> "ValueError: Could not retrieve data for any ticker",
             raw_data |-> PyNone, failed_tickers |-> ft]
        ELSE [defined |-> TRUE, mpc |-> "returned", exc |-> "None",
              raw_data |-> PyList(Concat(ad)), failed_tickers |-> ft]
    ELSE
        LET t == tickers[k]
            path == GetCachePath(t, size)
            cached == LoadFromCache(use_cache, cache_expiry, sim[path], now, FALSE)
            hit == ~IsNone(cached)
            known == hit \/ max_retries <= 0 \/ (pc[k] = "done" /\ hist[k].gets >= 1)
            r == IF hit THEN Tuple(t, cached, "None")
                 ELSE IF max_retries <= 0 THEN NoReturn
                 ELSE res[k]
            sim2 == IF ~hit /\ use_cache /\ r.kind = "tuple" /\ Truthy(r.data)
                    THEN [sim EXCEPT ![path] = SaveDump(r.data, now, TRUE)]
                    ELSE sim
            p == ProcessResult(t, r, ad, ft)
        IN  IF ~known THEN
                [defined |-> FALSE, mpc |-> "fetching", exc |-> "None",
                 raw_data |-> PyNone, failed_tickers |-> ft]
            ELSE IF p.raises # "None" THEN
                [defined |-> TRUE, mpc |-> "raised", exc |-> p.raises,
                 raw_data |-> PyNone, failed_tickers |-> ft]
            ELSE SeqGetData(k + 1, sim2, p.all_data, p.failed_tickers)

(***************************************************************************)
(* Tables.  A DataFrame is PyList(rows); a row is a function from column   *)
(* names (index levels included) to values.  A float is an integer, the    *)
(* quotient Ratio(n, d) of two integers, the standard deviation Std(xs) of *)
(* a sequence of floats, or NaN.                                           *)
(***************************************************************************)
Ratio(n, d) == [num |-> n, den |-> d]
Std(xs) == [std |-> xs]
\* df is None or df.empty
Unavailable(df) == IsNone(df) \/ Len(df.items) = 0
Columns(rows) == UNION {DOMAIN rows[k] : k \in 1..Len(rows)}
\* A function on 1..n as a tuple.
AsSeq(f) == f \o <<>>

\* The order of index keys (Symbol, Date): symbols as strings, dates in
\* time, NaT last.
SymbolRank(sym) == IF sym = "AAA" THEN 1 ELSE 2
KeyLess(a, b) ==
    \/ SymbolRank(a["Symbol"]) < SymbolRank(b["Symbol"])
    \/ /\ a["Symbol"] = b["Symbol"]
       /\ a["Date"][1] # "NaT"
       /\ (b["Date"][1] = "NaT" \/ a["Date"][2] < b["Date"][2])

\* df.sort_index() on the (Symbol, Date) index; rows of equal key keep their
\* order.
SortIndex(rows) ==
    LET n == Len(rows)
        rank == AsSeq([k \in 1..n |->
                   Cardinality({j \in 1..n :
                       \/ KeyLess(rows[j], rows[k])
                       \/ (~KeyLess(rows[k], rows[j]) /\ j < k)}) + 1])
    IN  AsSeq([i \in 1..n |-> rows[CHOOSE k \in 1..n : rank[k] = i]])

\* groupby('Symbol'): the position of each row within the rows of its
\* symbol, in table order, counted from 1.
GroupPos(rows) ==
    AsSeq([i \in 1..Len(rows) |->
        Cardinality({j \in 1..i : rows[j]["Symbol"] = rows[i]["Symbol"]})])
\* The row of the same symbol g places before row i (0 if there is none).
GroupShift(rows, gp, i, g) ==
    IF gp[i] <= g THEN 0
    ELSE CHOOSE j \in 1..i :
            rows[j]["Symbol"] = rows[i]["Symbol"] /\ gp[j] = gp[i] - g

\* Mutant of GroupPctChange: the previous row is taken from the table, not
\* from the symbol's group.
TablePctChange(rows, col, periods) ==
    AsSeq([i \in 1..Len(rows) |->
        IF i <= periods THEN NaN
        ELSE Ratio(rows[i][col] - rows[i - periods][col], rows[i - periods][col])])

\* df.groupby('Symbol')[col].pct_change(periods) (the values of col are all
\* defined, so that the default forward fill changes nothing)
GroupPctChange(rows, col, periods) ==
    LET gp == GroupPos(rows)
    IN  AsSeq([i \in 1..Len(rows) |->
            LET j == GroupShift(rows, gp, i, periods)
            IN  IF j = 0 THEN NaN
                ELSE Ratio(rows[i][col] - rows[j][col], rows[j][col])])

\* Mutant of GroupRollingStd: min_periods is 1, a window holding one
\* defined value or more gives a value.
GroupRollingStdAny(rows, col, window) ==
    LET gp == GroupPos(rows)
    IN  AsSeq([i \in 1..Len(rows) |->
            LET lo == IF gp[i] < window THEN 1 ELSE gp[i] - window + 1
                xs == AsSeq([m \in 1..(gp[i] - lo + 1) |->
                         rows[GroupShift(rows, gp, i, gp[i] - lo + 1 - m)][col]])
            IN  IF \A m \in 1..Len(xs) : xs[m] = NaN THEN NaN ELSE Std(xs)])

\* df.groupby('Symbol')[col].rolling(window=window).std(), realigned with
\* the rows: NaN unless the window is full (min_periods = window) of
\* defined values, and (ddof = 1) holds two values or more.
GroupRollingStd(rows, col, window) ==
    LET gp == GroupPos(rows)
    IN  AsSeq([i \in 1..Len(rows) |->
            IF gp[i] < window THEN NaN
            ELSE LET xs == AsSeq([m \in 1..window |->
                              rows[GroupShift(rows, gp, i, window - m)][col]])
                 IN  IF \E m \in 1..window : xs[m] = NaN THEN NaN
                     ELSE IF window < 2 THEN NaN
                     ELSE Std(xs)])

\* df[name] = vals
WithColumn(rows, name, vals) ==
    AsSeq([i \in 1..Len(rows) |-> (name :> vals[i]) @@ rows[i]])

(***************************************************************************)
(* The stages after get_data.                                              *)
(***************************************************************************)
NoCall == [op |-> "none", raises |-> "None", result |-> PyNone]
Raised(op, msg) == [op |-> op, raises |-> msg, result |-> PyNone]
Returned(op, v) == [op |-> op, raises |-> "None", result |-> v]
\* A method is called on a constructed client between get_data calls.
ClientIdle == ipc = "constructed" /\ mpc # "fetching"

\* get_data(use_parallel) is called.
CallGetData ==
    /\ ClientIdle
    /\ ran' = IF mpc = "returned" THEN ran \cup {"get_data"} ELSE ran
    /\ call' = NoCall
    /\ files0' = files
    /\ pc' = [i \in 1..N |-> IF Parallel \/ i = 1 THEN "load" ELSE "idle"]
    /\ attempt' = [i \in 1..N |-> 0]
    /\ pend' = [i \in 1..N |-> PyNone]
    /\ res' = [i \in 1..N |-> Pending]
    /\ hist' = [i \in 1..N |-> NoHistory]
    /\ writers' = [p \in CachePaths |-> {}]
    /\ cur' = 1
    /\ all_data' = <<>>
    /\ failed_tickers' = <<>>
    /\ mpc' = "fetching"
    /\ exc' = "None"
    /\ UNCHANGED <<helpers, tickers, size, use_cache, cache_expiry, max_retries,
                   use_parallel, files, now, raw_data, ctor, ohlcv_df, returns_data>>

\* required_columns and the names they are given
RequiredColumns ==
    <<"date", "code", "open", "high", "low", "close", "adClose", "nmVolume">>
StandardNames ==
    <<"Date", "Symbol", "Open", "High", "Low", "Close", "Adj Close", "Volume">>
\* Mutant of MissingColumns: only the first missing column is reported.
MissingColumnsFirst(rows) ==
    SubSeq(SelectSeq(RequiredColumns, LAMBDA c : c \notin Columns(rows)), 1, 1)
\* missing_columns: the required columns raw_data lacks, in their order
MissingColumns(rows) ==
    SelectSeq(RequiredColumns, LAMBDA c : c \notin Columns(rows))
\* str() of a list of strings: ['a', 'b']
RECURSIVE ReprItems(_)
ReprItems(cols) ==
    IF cols = <<>> THEN ""
    ELSE "'" \o Head(cols) \o "'"
         \o (IF Len(cols) > 1 THEN ", " ELSE "") \o ReprItems(Tail(cols))
ReprList(cols) == "[" \o ReprItems(cols) \o "]"
\* raw_data[required_columns] renamed and indexed by (Symbol, Date): the
\* index levels are kept as columns of the row.
OhlcvOf(rows) ==
    AsSeq([k \in 1..Len(rows) |->
        [c \in {StandardNames[m] : m \in 1..8} |->
            rows[k][RequiredColumns[CHOOSE m \in 1..8 : StandardNames[m] = c]]]
        @@ <<>>])

\* Mutant of Ohlcv: the check of raw_data is missing.
OhlcvUnchecked ==
    /\ ClientIdle
    /\ IF ~IsNone(raw_data) /\ MissingColumns(raw_data.items) # <<>> THEN
           /\ call' = Raised("ohlcv", "Data is missing required columns: "
                                          \o ReprList(MissingColumns(raw_data.items)))
           /\ UNCHANGED <<ohlcv_df, ran>>
       ELSE
           /\ ohlcv_df' = IF IsNone(raw_data) THEN PyList(<<>>)
                           ELSE PyList(OhlcvOf(raw_data.items))
           /\ call' = Returned("ohlcv", PyNone)
           /\ ran' = ran \cup {"ohlcv"}
    /\ UNCHANGED <<helpers, tickers, size, use_cache, cache_expiry, max_retries,
                   use_parallel, files0, ctor, getdata, returns_data>>

\* ohlcv()
Ohlcv ==
    /\ ClientIdle
    /\ IF Unavailable(raw_data) THEN
           /\ call' = Raised("ohlcv", "No data available. Call get_data() first.")
           /\ UNCHANGED <<ohlcv_df, ran>>
       ELSE IF MissingColumns(raw_data.items) # <<>> THEN
           /\ call' = Raised("ohlcv", "Data is missing required columns: "
                                          \o ReprList(MissingColumns(raw_data.items)))
           /\ UNCHANGED <<ohlcv_df, ran>>
       ELSE
           /\ ohlcv_df' = PyList(OhlcvOf(raw_data.items))
           /\ call' = Returned("ohlcv", PyNone)
           /\ ran' = ran \cup {"ohlcv"}
    /\ UNCHANGED <<helpers, tickers, size, use_cache, cache_expiry, max_retries,
                   use_parallel, files0, ctor, getdata, returns_data>>

\* resample(rule, col_list) up to its checks; validCols: col_list is None
\* or names columns of ohlcv_df only.  The resampling itself is not
\* modelled: the call returns a table or raises, nothing is stored.
Resample(validCols, ok) ==
    /\ ClientIdle
    /\ call' = IF Unavailable(ohlcv_df)
               THEN Raised("resample", "OHLCV data not available. Call ohlcv() first.")
               ELSE IF ~validCols THEN Raised("resample", "Invalid column names")
               ELSE IF ok THEN Returned("resample", PyNone)
               ELSE Raised("resample", "TypeError")
    /\ UNCHANGED <<helpers, tickers, size, use_cache, cache_expiry, max_retries,
                   use_parallel, files0, ctor, getdata, ohlcv_df, returns_data, ran>>

ReturnColumns == <<"1d%", "1w%", "1m%", "6m%">>
\* Mutant of Periods: calendar days instead of trading days.
PeriodsCalendar == <<1, 7, 30, 180>>
\* the periods of the four pct_change calls
Periods == <<1, 5, 20, 120>>
\* The body of calculate_returns: a sorted copy with the four columns.
RECURSIVE AddReturns(_, _)
AddReturns(rows, k) ==
    IF k > Len(Periods) THEN rows
    ELSE AddReturns(WithColumn(rows, ReturnColumns[k],
                               GroupPctChange(rows, "Adj Close", Periods[k])),
                    k + 1)
ReturnsOf(rows) == AddReturns(SortIndex(rows), 1)

\* calculate_returns()
CalculateReturns ==
    /\ ClientIdle
    /\ IF Unavailable(ohlcv_df) THEN
           /\ call' = Raised("calculate_returns",
                             "OHLCV data not available. Call ohlcv() first.")
           /\ UNCHANGED <<returns_data, ran>>
       ELSE
           /\ returns_data' = PyList(ReturnsOf(ohlcv_df.items))
           /\ call' = Returned("calculate_returns", PyNone)
           /\ ran' = ran \cup {"calculate_returns"}
    /\ UNCHANGED <<helpers, tickers, size, use_cache, cache_expiry, max_retries,
                   use_parallel, files0, ctor, getdata, ohlcv_df>>

\* The body of calculate_volatility (returns_data always has column 1d%).
VolatilityOf(rows, window) ==
    WithColumn(rows, "volatility", GroupRollingStd(rows, "1d%", window))

\* calculate_volatility(window)
CalculateVolatility(window) ==
    /\ ClientIdle
    /\ call' = IF Unavailable(returns_data)
               THEN Raised("calculate_volatility",
                           "Returns data not available. Call calculate_returns() first.")
               ELSE Returned("calculate_volatility",
                             [window |-> window,
                              table |-> VolatilityOf(returns_data.items, window)])
    /\ UNCHANGED <<helpers, tickers, size, use_cache, cache_expiry, max_retries,
                   use_parallel, files0, ctor, getdata, ohlcv_df, returns_data, ran>>

\* ohlcv_df.groupby('Symbol').last(): per symbol, in symbol order, the last
\* row of the table.
LatestOf(rows) ==
    LET last == {i \in 1..Len(rows) :
                    \A j \in (i + 1)..Len(rows) : rows[j]["Symbol"] # rows[i]["Symbol"]}
    IN  SortIndex(AsSeq([m \in 1..Cardinality(last) |->
                     rows[CHOOSE i \in last :
                             Cardinality({j \in last : j <= i}) = m]]))

\* get_latest_prices()
GetLatestPrices ==
    /\ ClientIdle
    /\ call' = IF Unavailable(ohlcv_df)
               THEN Raised("get_latest_prices",
                           "OHLCV data not available. Call ohlcv() first.")
               ELSE Returned("get_latest_prices", PyList(LatestOf(ohlcv_df.items)))
    /\ UNCHANGED <<helpers, tickers, size, use_cache, cache_expiry, max_retries,
                   use_parallel, files0, ctor, getdata, ohlcv_df, returns_data, ran>>

DataTypes == {"raw", "ohlcv", "returns", "other"}
\* export_to_csv(filename, data_type); ok = FALSE: to_csv raises OSError.
ExportToCsv(data_type, ok) ==
    /\ ClientIdle
    /\ LET op == "export_to_csv"
           missing ==
               IF data_type = "raw" THEN
                   IF Unavailable(raw_data)
                   THEN "Raw data not available. Call get_data() first." ELSE "None"
               ELSE IF data_type = "ohlcv" THEN
                   IF Unavailable(ohlcv_df)
                   THEN "OHLCV data not available. Call ohlcv() first." ELSE "None"
               ELSE IF data_type = "returns" THEN
                   IF Unavailable(returns_data)
                   THEN "Returns data not available. Call calculate_returns() first."
                   ELSE "None"
               ELSE "Invalid data_type"
       IN  /\ ~ok => missing = "None"
           /\ call' = IF missing # "None"
                      THEN [op |-> op, raises |-> missing, result |-> [data_type |-> data_type]]
                      ELSE IF ~ok
                      THEN [op |-> op, raises |-> "OSError", result |-> [data_type |-> data_type]]
                      ELSE [op |-> op, raises |-> "None", result |-> [data_type |-> data_type]]
    /\ UNCHANGED <<helpers, tickers, size, use_cache, cache_expiry, max_retries,
                   use_parallel, files0, ctor, getdata, ohlcv_df, returns_data, ran>>

\* An hour passes (sleeps, slow responses).
Tick ==
    /\ mpc = "fetching"
    /\ now < MaxTime
    /\ now' = now + 1
    /\ UNCHANGED <<config, files, pc, attempt, pend, res, hist, writers, cur,
                   all_data, failed_tickers, mpc, exc, raw_data>>

(***************************************************************************)
(* Initial states: a constructed client (__init__ has validated its        *)
(* inputs), a cache directory, and get_data just called.                   *)
(***************************************************************************)
\* _validate_inputs
ValidInputs(tk, sz, expiry) ==
    /\ Len(tk) > 0
    /\ \A k \in 1..Len(tk) : tk[k] \in TickerNames
    /\ sz > 0
    /\ expiry >= 0

TickerLists(names) == UNION {[1..n -> names] : n \in 1..MaxTickers}

\* A cache file left by an earlier run of a client, or by anything else.
FreshFiles ==
    [t \in TickerNames |->
        {File(1, JsonDump(OldData(t))), File(1, JsonDump(EmptyData))}]
AnyFiles ==
    [t \in TickerNames |->
        {File(m, JsonDump(OldData(t))) : m \in 0..1}
            \cup {File(1, JsonDump(EmptyData)), File(1, JsonDump(NoDateData(t))),
                  File(1, GarbageText)}]

\* No pipeline method has been called.
NoStages ==
    /\ ohlcv_df = PyNone
    /\ returns_data = PyNone
    /\ call = NoCall
    /\ ran = {}

\* No function of vnstock_helpers has been called.
NoSafeCall ==
    /\ sc_args = [max_retries |-> 3, symbol |-> TRUE]
    /\ sc = [pc |-> "idle"]
    /\ sc_log = <<>>
    /\ sc_result = NoCall
NoVnstock ==
    /\ vn_args = [tickers |-> <<>>, start_date |-> <<2023, 1, 1>>,
                  end_date |-> <<2023, 1, 1>>]
    /\ upstream = [format |-> "time", trading |-> {}, failing |-> {}]
    /\ vn = [pc |-> "idle"]
    /\ vn_result = NoCall
    /\ vn_runs = <<>>
NoHelpers == NoVnstock /\ NoSafeCall

\* __init__ has returned, the cache directory exists.
Constructed ==
    /\ ipc = "constructed"
    /\ init_error = "None"
    /\ cache_dir = TRUE
    /\ cache_dir0 = TRUE

InitWith(lists, sizes, expiries, retries, parallels, cached) ==
    /\ Constructed
    /\ NoStages
    /\ NoHelpers
    /\ tickers \in lists
    /\ tickers[1] = "AAA"     \* ticker names are interchangeable
    /\ size \in sizes
    /\ cache_expiry \in expiries
    /\ ValidInputs(tickers, size, cache_expiry)
    /\ use_cache \in BOOLEAN
    /\ max_retries \in retries
    /\ use_parallel \in parallels
    /\ now = 1
    /\ \E f \in [TickerNames -> UNION {cached[t] \cup {NoFile} : t \in TickerNames}] :
          /\ \A t \in TickerNames : f[t] \in cached[t] \cup {NoFile}
          /\ \A t \in TickerNames :
                (\A k \in 1..Len(tickers) : tickers[k] # t) => f[t] = NoFile
          /\ files = [p \in CachePaths |->
                        IF p[2] = size THEN f[p[1]]
                        ELSE File(0, JsonDump(OldData(p[1])))]
    /\ files0 = files
    /\ pc = [i \in 1..Len(tickers) |->
                IF (use_parallel /\ Len(tickers) > 1) \/ i = 1 THEN "load" ELSE "idle"]
    /\ attempt = [i \in 1..Len(tickers) |-> 0]
    /\ pend = [i \in 1..Len(tickers) |-> PyNone]
    /\ res = [i \in 1..Len(tickers) |-> Pending]
    /\ hist = [i \in 1..Len(tickers) |-> NoHistory]
    /\ writers = [p \in CachePaths |-> {}]
    /\ cur = 1
    /\ all_data = <<>>
    /\ failed_tickers = <<>>
    /\ mpc = "fetching"
    /\ exc = "None"
    /\ raw_data = PyNone

\* get_data over any ticker list, in either mode, within one hour and on a
\* file system that does not fail.
Init == InitWith(TickerLists(TickerNames), Sizes, {1}, {0, 1, 2}, BOOLEAN, FreshFiles)
Next ==
    \/ \E i \in 1..N : LoadStep(i, FALSE)
    \/ \E i \in 1..N, o \in Outcomes : HttpAttempt(i, o, TRUE)
    \/ \E i \in 1..N : DumpStep(i, TRUE)
    \/ Collect
    \/ Finish
Spec == Init /\ [][Next]_vars

\* One fetch of a ticker, or two in a row, against any cache file, any
\* expiry, a running clock and a file system that may fail.
MaxExpiry == 2
MaxRuns == 2        \* calls of get_stock_data_vnstock on one provider
InitFetch ==
    InitWith({<<"AAA">>, <<"AAA", "AAA">>}, {1}, 0..MaxExpiry, 0..MaxRetries,
             {FALSE}, AnyFiles)
NextFetch ==
    \/ \E i \in 1..N, ioerr \in BOOLEAN : LoadStep(i, ioerr)
    \/ \E i \in 1..N, o \in Outcomes, ok \in BOOLEAN : HttpAttempt(i, o, ok)
    \/ \E i \in 1..N, ok \in BOOLEAN : DumpStep(i, ok)
    \/ Collect
    \/ Finish
    \/ Tick
SpecFetch == InitFetch /\ [][NextFetch]_vars

\* One ticker fetched by a sequential get_data, every attempt ending in any
\* of the outcomes, those of an unusable body of a 200 response included.
AllOutcomes == Outcomes \cup JsonOutcomes
InitAttempts ==
    InitWith({<<"AAA">>}, {1}, {0, 1}, 0..MaxRetries, {FALSE}, FreshFiles)
NextAttempts ==
    \/ \E i \in 1..N, ioerr \in BOOLEAN : LoadStep(i, ioerr)
    \/ \E i \in 1..N, o \in AllOutcomes, ok \in BOOLEAN : HttpAttempt(i, o, ok)
    \/ \E i \in 1..N, ok \in BOOLEAN : DumpStep(i, ok)
    \/ Collect
    \/ Finish
SpecAttempts == InitAttempts /\ [][NextAttempts]_vars

(***************************************************************************)
(* __init__: the constructor called with any arguments, on a file system   *)
(* where the cache directory exists or not and makedirs may fail.          *)
(***************************************************************************)
\* The strings passed as tickers, and len() of each.
TickerArgs == {"AAA", "BBB", "AB", "ABCD"}
StrLen(s) == IF s \in {"AAA", "BBB"} THEN 3 ELSE IF s = "AB" THEN 2 ELSE 4
TickerListArgs == {<<>>, <<"AAA">>, <<"AB">>, <<"AAA", "BBB">>, <<"AAA", "ABCD">>}
SizeArgs == {-1, 0, 1, 2}
ExpiryArgs == {-1, 0, 1}

\* _validate_inputs: the message of the ValueError it raises, "None" if it
\* returns (the isinstance check is not modelled: every ticker is a string).
ValidateInputs(tk, sz, expiry) ==
    IF Len(tk) = 0 THEN "tickers list cannot be empty"
    ELSE IF \E k \in 1..Len(tk) : StrLen(tk[k]) # 3
        THEN "All tickers must be 3 characters in length"
    ELSE IF sz <= 0 THEN "size must be positive"
    ELSE IF expiry < 0 THEN "cache_expiry must be non-negative"
    ELSE "None"

\* No get_data call is in progress: its variables hold their initial values.
NoGetData ==
    /\ files = [p \in CachePaths |-> NoFile]
    /\ files0 = files
    /\ now = 1
    /\ pc = <<>> /\ attempt = <<>> /\ pend = <<>> /\ res = <<>> /\ hist = <<>>
    /\ writers = [p \in CachePaths |-> {}]
    /\ cur = 1
    /\ all_data = <<>>
    /\ failed_tickers = <<>>
    /\ mpc = "idle"
    /\ exc = "None"
    /\ raw_data = PyNone

\* __init__, lines 103-125: the attributes are assigned, then the cache
\* directory is created if caching is on and it does not exist.  mkOk =
\* FALSE: os.makedirs raises OSError.
InitAssign(mkOk) ==
    /\ ipc = "new"
    /\ ~mkOk => (use_cache /\ ~cache_dir)
    /\ IF use_cache /\ ~cache_dir THEN
           IF mkOk THEN /\ cache_dir' = TRUE
                        /\ ipc' = "dirs"
                        /\ init_error' = init_error
           ELSE /\ cache_dir' = cache_dir
                /\ ipc' = "raised"
                /\ init_error' = "OSError"
       ELSE /\ cache_dir' = cache_dir
            /\ ipc' = "dirs"
            /\ init_error' = init_error
    /\ UNCHANGED <<helpers, tickers, size, use_cache, cache_expiry, max_retries,
                   use_parallel, cache_dir0, files0, getdata, stages>>

\* __init__, lines 127-128: self._validate_inputs()
InitValidate ==
    /\ ipc = "dirs"
    /\ LET e == ValidateInputs(tickers, size, cache_expiry)
       IN  /\ init_error' = e
           /\ ipc' = IF e = "None" THEN "constructed" ELSE "raised"
    /\ UNCHANGED <<helpers, tickers, size, use_cache, cache_expiry, max_retries,
                   use_parallel, cache_dir, cache_dir0, files0, getdata, stages>>

InitCtor ==
    /\ tickers \in TickerListArgs
    /\ size \in SizeArgs
    /\ cache_expiry \in ExpiryArgs
    /\ use_cache \in BOOLEAN
    /\ max_retries \in 0..MaxRetries
    /\ use_parallel = FALSE
    /\ cache_dir \in BOOLEAN
    /\ cache_dir0 = cache_dir
    /\ ipc = "new"
    /\ init_error = "None"
    /\ NoGetData
    /\ NoStages
    /\ NoHelpers
NextCtor ==
    \/ \E mkOk \in BOOLEAN : InitAssign(mkOk)
    \/ InitValidate
SpecCtor == InitCtor /\ [][NextCtor]_vars

(***************************************************************************)
(* A client in use: get_data calls (sequential, no cache) and the methods  *)
(* of the later stages, called in any order and any number of times.       *)
(***************************************************************************)
MaxWindow == 3      \* largest window of calculate_volatility

InitPipeline ==
    /\ Constructed
    /\ NoStages
    /\ NoHelpers
    /\ NoGetData
    /\ tickers \in {<<"AAA">>, <<"AAA", "BBB">>, <<"AAA", "AAA">>}
    /\ size = 1
    /\ use_cache = FALSE
    /\ cache_expiry = 1
    /\ max_retries = 1
    /\ use_parallel = FALSE
NextPipeline ==
    \/ CallGetData
    \/ \E i \in 1..N : LoadStep(i, FALSE)
    \/ \E i \in 1..N, o \in Outcomes : HttpAttempt(i, o, TRUE)
    \/ Collect
    \/ Finish
    \/ Ohlcv
    \/ \E validCols, ok \in BOOLEAN : Resample(validCols, ok)
    \/ CalculateReturns
    \/ \E window \in 1..MaxWindow : CalculateVolatility(window)
    \/ GetLatestPrices
    \/ \E data_type \in DataTypes, ok \in BOOLEAN : ExportToCsv(data_type, ok)
SpecPipeline == InitPipeline /\ [][NextPipeline]_vars

(***************************************************************************)
(* The stages over price series long enough for every return period:       *)
(* get_data has returned a table of one or two tickers, each with a series *)
(* of daily records in ascending or descending date order.                 *)
(***************************************************************************)
\* adClose of a symbol on a day
PriceOf(sym, day) == 10 + ((day * (SymbolRank(sym) + 2)) % 7)
\* The block of a ticker in raw_data: len daily rows, days 1..len.
Block(sym, len, ascending) ==
    AsSeq([k \in 1..len |->
        LET day == IF ascending THEN k ELSE len + 1 - k
            v == PriceOf(sym, day)
        IN  [code |-> sym, date |-> <<"Timestamp", day>>, open |-> v,
             high |-> v + 1, low |-> v - 1, close |-> v, adClose |-> v,
             nmVolume |-> 100 * v]])
SeriesLengths == {1, 2, 3, 6, 7, 21, 22, 121, 122}
OtherLengths == {2, 7}

InitReturns ==
    /\ Constructed
    /\ NoStages
    /\ NoHelpers
    /\ tickers \in {<<"AAA">>, <<"AAA", "BBB">>, <<"BBB", "AAA">>}
    /\ size = 1
    /\ use_cache = FALSE
    /\ cache_expiry = 1
    /\ max_retries = 1
    /\ use_parallel = FALSE
    /\ files = [p \in CachePaths |-> NoFile]
    /\ files0 = files
    /\ now = 1
    /\ pc = <<>> /\ attempt = <<>> /\ pend = <<>> /\ res = <<>> /\ hist = <<>>
    /\ writers = [p \in CachePaths |-> {}]
    /\ cur = 1
    /\ all_data = <<>>
    /\ failed_tickers = <<>>
    /\ mpc = "returned"
    /\ exc = "None"
    /\ \E la \in SeriesLengths, lb \in OtherLengths, ascending \in BOOLEAN :
          /\ Len(tickers) = 1 => lb = 2
          /\ raw_data = PyList(Concat(
                 [k \in 1..Len(tickers) |->
                     Block(tickers[k], IF tickers[k] = "AAA" THEN la ELSE lb,
                           ascending)]))
NextReturns ==
    \/ Ohlcv
    \/ CalculateReturns
    \/ \E window \in 1..MaxWindow : CalculateVolatility(window)
SpecReturns == InitReturns /\ [][NextReturns]_vars

(***************************************************************************)
(* ohlcv() on raw tables of any columns: get_data has returned a table     *)
(* whose records carried the date and any of the other required fields,    *)
(* and possibly a field ohlcv() does not use; an earlier ohlcv() may have  *)
(* left a table.                                                           *)
(***************************************************************************)
\* The rows of a table restricted to the columns cols.
Restrict(rows, cols) ==
    AsSeq([k \in 1..Len(rows) |-> [c \in cols \cap DOMAIN rows[k] |-> rows[k][c]] @@ <<>>])
\* A raw table of two rows of AAA with a column "floor" added.
WideBlock ==
    AsSeq([k \in 1..2 |-> ("floor" :> "HOSE") @@ Block("AAA", 2, TRUE)[k]])
InitOhlcv ==
    /\ Constructed
    /\ NoHelpers
    /\ tickers = <<"AAA">>
    /\ size = 1
    /\ use_cache = FALSE
    /\ cache_expiry = 1
    /\ max_retries = 1
    /\ use_parallel = FALSE
    /\ files = [p \in CachePaths |-> NoFile]
    /\ files0 = files
    /\ now = 1
    /\ pc = <<>> /\ attempt = <<>> /\ pend = <<>> /\ res = <<>> /\ hist = <<>>
    /\ writers = [p \in CachePaths |-> {}]
    /\ cur = 1
    /\ all_data = <<>>
    /\ failed_tickers = <<>>
    /\ mpc = "returned"
    /\ exc = "None"
    /\ \E cols \in SUBSET Columns(WideBlock) :
          /\ "date" \in cols
          /\ raw_data = PyList(Restrict(WideBlock, cols))
    /\ \E before \in BOOLEAN :
          /\ ohlcv_df = IF before THEN PyList(OhlcvOf(Block("BBB", 1, TRUE)))
                         ELSE PyNone
          /\ ran = IF before THEN {"get_data", "ohlcv"} ELSE {"get_data"}
    /\ returns_data = PyNone
    /\ call = NoCall
NextOhlcv ==
    \/ Ohlcv
    \/ CalculateReturns
SpecOhlcv == InitOhlcv /\ [][NextOhlcv]_vars

(***************************************************************************)
(* vnstock_helpers.py: get_stock_data_vnstock.  A date (a "YYYY-MM-DD"     *)
(* string, or the datetime parsed from it) is the tuple <<year, month,     *)
(* day>>.  A Timestamp of the Date column is <<"Timestamp", ordinal, ns>>: *)
(* the proleptic Gregorian ordinal of its day and the nanoseconds past     *)
(* midnight.  The provider answers a history request with the rows of its  *)
(* trading days within [start, end], oldest first, in one of the table     *)
(* formats _get_single_period_data tells apart, or fails.  Of a row's      *)
(* price columns the model keeps Close and Adj Close.                      *)
(***************************************************************************)
IsLeap(y) == (y % 4 = 0 /\ y % 100 # 0) \/ y % 400 = 0
DaysBeforeMonth == <<0, 31, 59, 90, 120, 151, 181, 212, 243, 273, 304, 334>>
DaysInMonth(y, m) ==
    IF m = 2 THEN (IF IsLeap(y) THEN 29 ELSE 28)
    ELSE IF m \in {4, 6, 9, 11} THEN 30 ELSE 31
\* datetime.toordinal()
ToOrdinal(date) ==
    LET y == date[1] - 1
    IN  y * 365 + (y \div 4) - (y \div 100) + (y \div 400)
        + DaysBeforeMonth[date[2]]
        + (IF date[2] > 2 /\ IsLeap(date[1]) THEN 1 ELSE 0)
        + date[3]
\* (b - a).days
DaysBetween(a, b) == ToOrdinal(b) - ToOrdinal(a)
\* dt.replace(year=y): ValueError when the day does not exist in year y
ReplaceYear(date, y) ==
    IF date[3] <= DaysInMonth(y, date[2]) THEN <<y, date[2], date[3]>>
    ELSE "ValueError"
\* min(a, b) of two datetimes
MinDate(a, b) == IF ToOrdinal(b) < ToOrdinal(a) THEN b ELSE a

\* pd.to_datetime of a date, and of the integer i (nanoseconds since the
\* epoch, 1970-01-01)
DateTimestamp(date) == <<"Timestamp", ToOrdinal(date), 0>>
EpochOrdinal == 719163
IntTimestamp(i) == <<"Timestamp", EpochOrdinal, i>>
TimestampLess(a, b) == a[2] < b[2] \/ (a[2] = b[2] /\ a[3] < b[3])

\* The table formats of the provider: the day in a column "date", in a
\* column "time" (the index being 0, 1, 2, ...), or in a DatetimeIndex.
Formats == {"date", "time", "index"}

\* The dates of a set in time order, as a tuple.
DatesInOrder(dates) ==
    AsSeq([k \in 1..Cardinality(dates) |->
        CHOOSE d \in dates :
            Cardinality({e \in dates : ToOrdinal(e) <= ToOrdinal(d)}) = k])

\* stock.quote.history(start, end) through safe_api_call: the rows of the
\* trading days from start to end, or an exception.  A row carries its
\* index label under "index".
History(ticker, start, end) ==
    IF <<ticker, start>> \in upstream.failing THEN "Exception"
    ELSE LET days == DatesInOrder({d \in upstream.trading :
                        /\ ToOrdinal(start) <= ToOrdinal(d)
                        /\ ToOrdinal(d) <= ToOrdinal(end)})
         IN  AsSeq([k \in 1..Len(days) |->
                LET price == PriceOf(ticker, ToOrdinal(days[k]))
                IN  IF upstream.format = "index"
                    THEN ("index" :> DateTimestamp(days[k])) @@ ("close" :> price)
                    ELSE ("index" :> (k - 1)) @@ (upstream.format :> days[k])
                         @@ ("close" :> price)])

\* _get_single_period_data: None when the request failed or returned no
\* row; else the rows with Symbol, Date (from the column "date" when there
\* is one and no column "time", else from the index), Adj Close (the
\* close, the provider sending no adjusted close) and close renamed Close.
GetSinglePeriodData(ticker, start_date, end_date) ==
    LET data == History(ticker, start_date, end_date)
    IN  IF data = "Exception" THEN PyNone
        ELSE IF Len(data) = 0 THEN PyNone
        ELSE PyList(AsSeq([k \in 1..Len(data) |->
                LET r == data[k]
                    Date == IF "time" \notin DOMAIN r /\ "date" \in DOMAIN r
                            THEN DateTimestamp(r["date"])
                            ELSE IF upstream.format = "index" THEN r["index"]
                            ELSE IntTimestamp(r["index"])
                IN  ("Symbol" :> ticker) @@ ("Date" :> Date)
                    @@ ("Close" :> r["close"]) @@ ("Adj Close" :> r["close"])
                    @@ [c \in DOMAIN r \ {"index", "close"} |-> r[c]]]))

\* Mutant of DropDuplicates: every row is kept.
DropDuplicatesNone(rows) == rows
\* df.drop_duplicates(subset=['Symbol', 'Date']): of the rows with one
\* (Symbol, Date) the first is kept.
DropDuplicates(rows) ==
    LET keep == {i \in 1..Len(rows) :
                    \A j \in 1..(i - 1) :
                        ~(rows[j]["Symbol"] = rows[i]["Symbol"]
                          /\ rows[j]["Date"] = rows[i]["Date"])}
    IN  AsSeq([m \in 1..Cardinality(keep) |->
            rows[CHOOSE i \in keep : Cardinality({j \in keep : j <= i}) = m]])

\* df.sort_values('Date'); rows of equal Date (there are none after
\* drop_duplicates on the rows of one ticker) are left in their order.
SortValuesDate(rows) ==
    LET n == Len(rows)
        rank == AsSeq([k \in 1..n |->
                   Cardinality({j \in 1..n :
                       \/ TimestampLess(rows[j]["Date"], rows[k]["Date"])
                       \/ (rows[j]["Date"] = rows[k]["Date"] /\ j < k)}) + 1])
    IN  AsSeq([i \in 1..n |-> rows[CHOOSE k \in 1..n : rank[k] = i]])

\* The chunks of one ticker combined: pd.concat, drop_duplicates,
\* sort_values.
CombineTickerData(ticker_data) ==
    SortValuesDate(DropDuplicates(Concat(ticker_data)))

\* The local variables of get_stock_data_vnstock as the loop turns to the
\* ticker at position i: past the last ticker the loop is left.  requested
\* lists the calls of _get_single_period_data made so far, each with the
\* position of its ticker.
AtTicker(i, start_dt, end_dt, use_chunking, ad, rq) ==
    [pc |-> IF i > Len(vn_args.tickers) THEN "combine"
            ELSE IF use_chunking THEN "chunks" ELSE "single",
     i |-> i, start_dt |-> start_dt, end_dt |-> end_dt,
     use_chunking |-> use_chunking, current_start |-> start_dt,
     ticker_data |-> <<>>, all_data |-> ad, requested |-> rq]

\* get_stock_data_vnstock(tickers, start_date, end_date) is called: the
\* range is split by year when it is longer than 365 days.
GetStockDataVnstock ==
    /\ vn.pc \in {"idle", "returned", "raised"}
    /\ Len(vn_runs) < MaxRuns
    /\ vn' = AtTicker(1, vn_args.start_date, vn_args.end_date,
                      DaysBetween(vn_args.start_date, vn_args.end_date) > 365,
                      <<>>, <<>>)
    /\ vn_result' = NoCall
    /\ UNCHANGED <<client, safecall, vn_args, upstream, vn_runs>>

\* ticker_data with chunk_data appended unless it is None or empty
WithChunk(ticker_data, chunk_data) ==
    IF ~IsNone(chunk_data) /\ Len(chunk_data.items) > 0
    THEN Append(ticker_data, chunk_data.items) ELSE ticker_data

\* One turn of the chunk loop: the chunk from current_start to a year
\* later, or to end_dt if that is sooner, is fetched and kept.  When the
\* day of current_start does not exist a year later, replace() raises and
\* the except clause goes on with the next ticker.
FetchChunk ==
    /\ vn.pc = "chunks"
    /\ ToOrdinal(vn.current_start) < ToOrdinal(vn.end_dt)
    /\ LET ticker == vn_args.tickers[vn.i]
           next_year == ReplaceYear(vn.current_start, vn.current_start[1] + 1)
       IN  IF next_year = "ValueError"
           THEN vn' = AtTicker(vn.i + 1, vn.start_dt, vn.end_dt,
                               vn.use_chunking, vn.all_data, vn.requested)
           ELSE LET current_end == MinDate(next_year, vn.end_dt)
                    chunk_data == GetSinglePeriodData(ticker, vn.current_start,
                                                      current_end)
                IN  vn' = [vn EXCEPT
                              !.ticker_data = WithChunk(@, chunk_data),
                              !.requested = Append(@, [i |-> vn.i,
                                  start |-> vn.current_start, end |-> current_end]),
                              !.current_start = current_end]
    /\ UNCHANGED <<client, safecall, vn_args, upstream, vn_result, vn_runs>>

\* The single request of a range of 365 days or less.
FetchSingle ==
    /\ vn.pc = "single"
    /\ LET ticker == vn_args.tickers[vn.i]
           chunk_data == GetSinglePeriodData(ticker, vn_args.start_date,
                                             vn_args.end_date)
       IN  vn' = [vn EXCEPT !.ticker_data = WithChunk(@, chunk_data),
                            !.requested = Append(@, [i |-> vn.i,
                                start |-> vn_args.start_date, end |-> vn_args.end_date]),
                            !.pc = "fetched"]
    /\ UNCHANGED <<client, safecall, vn_args, upstream, vn_result, vn_runs>>

\* The chunks of the ticker are combined and appended to all_data, if there
\* are any, and the loop goes on with the next ticker.
CombineTicker ==
    /\ \/ vn.pc = "fetched"
       \/ vn.pc = "chunks" /\ ~(ToOrdinal(vn.current_start) < ToOrdinal(vn.end_dt))
    /\ vn' = AtTicker(vn.i + 1, vn.start_dt, vn.end_dt, vn.use_chunking,
                      IF vn.ticker_data # <<>>
                      THEN Append(vn.all_data, CombineTickerData(vn.ticker_data))
                      ELSE vn.all_data,
                      vn.requested)
    /\ UNCHANGED <<client, safecall, vn_args, upstream, vn_result, vn_runs>>

\* After the loop: the tables of the tickers concatenated and indexed by
\* (Symbol, Date), or ValueError when there is none.
CombineAll ==
    /\ vn.pc = "combine"
    /\ LET r == IF vn.all_data # <<>>
                THEN Returned("get_stock_data_vnstock", PyList(Concat(vn.all_data)))
                ELSE Raised("get_stock_data_vnstock", "ValueError")
       IN  /\ vn_result' = r
           /\ vn_runs' = Append(vn_runs, r)
           /\ vn' = [vn EXCEPT !.pc = IF vn.all_data # <<>> THEN "returned"
                                      ELSE "raised"]
    /\ UNCHANGED <<client, safecall, vn_args, upstream>>

\* Calls of get_stock_data_vnstock on one provider: its trading days among
\* the days of Calendar, its format, the requests it fails (none, one, or
\* all of them).
Calendar == {<<2023, 7, 3>>, <<2024, 1, 1>>, <<2024, 3, 1>>, <<2024, 7, 1>>,
             <<2025, 1, 1>>, <<2025, 7, 1>>}
Ranges == {<<<<2023, 1, 1>>, <<2023, 12, 31>>>>, <<<<2023, 1, 1>>, <<2024, 1, 1>>>>,
           <<<<2023, 1, 1>>, <<2025, 1, 1>>>>, <<<<2023, 7, 1>>, <<2025, 12, 31>>>>,
           <<<<2024, 2, 29>>, <<2025, 12, 31>>>>}
Requests == {"AAA", "BBB"} \X {<<2023, 1, 1>>, <<2023, 7, 1>>, <<2024, 1, 1>>,
                               <<2024, 7, 1>>, <<2025, 7, 1>>, <<2024, 2, 29>>}
InitVnstock ==
    /\ Constructed
    /\ NoStages
    /\ NoGetData
    /\ tickers = <<"AAA">>
    /\ size = 1
    /\ use_cache = FALSE
    /\ cache_expiry = 1
    /\ max_retries = 1
    /\ use_parallel = FALSE
    /\ \E tk \in {<<"AAA">>, <<"AAA", "BBB">>, <<"AAA", "AAA">>}, r \in Ranges :
          vn_args = [tickers |-> tk, start_date |-> r[1], end_date |-> r[2]]
    /\ \E f \in Formats, tr \in SUBSET Calendar, fl \in SUBSET Requests :
          /\ Cardinality(tr) >= Cardinality(Calendar) - 1 \/ tr = {}
          /\ Cardinality(fl) <= 1 \/ fl = Requests
          /\ upstream = [format |-> f, trading |-> tr, failing |-> fl]
    /\ vn = [pc |-> "idle"]
    /\ vn_result = NoCall
    /\ vn_runs = <<>>
    /\ NoSafeCall
NextVnstock ==
    \/ GetStockDataVnstock
    \/ FetchChunk
    \/ FetchSingle
    \/ CombineTicker
    \/ CombineAll
SpecVnstock == InitVnstock /\ [][NextVnstock]_vars

(***************************************************************************)
(* vnstock_helpers.py: safe_api_call.  The function of the primary         *)
(* provider (TCBS) and stock.quote.history of the alternate one (VCI)      *)
(* return a table or raise an exception, given by its type name and its    *)
(* text.  sc_log lists what the call did: the provider calls with the      *)
(* exception each raised ("None" if it returned) and the sleeps.           *)
(***************************************************************************)
Contains(s, t) ==
    \E k \in 1..(Len(s) - Len(t) + 1) : SubSeq(s, k, k + Len(t) - 1) = t
UpperCase == "ABCDEFGHIJKLMNOPQRSTUVWXYZ"
LowerCase == "abcdefghijklmnopqrstuvwxyz"
LowerChar(c) ==
    IF \E k \in 1..26 : SubSeq(UpperCase, k, k) = c
    THEN LET k == CHOOSE k \in 1..26 : SubSeq(UpperCase, k, k) = c
         IN  SubSeq(LowerCase, k, k)
    ELSE c
\* str.lower()
RECURSIVE Lower(_)
Lower(s) ==
    IF Len(s) = 0 THEN ""
    ELSE LowerChar(SubSeq(s, 1, 1)) \o Lower(SubSeq(s, 2, Len(s)))

\* is_rate_limit
IsRateLimit(e) ==
    LET error_str == Lower(e.text)
    IN  \/ Contains(error_str, "rate")
        \/ Contains(error_str, "limit")
        \/ Contains(error_str, "quá nhiều request")
        \/ e.type = "RateLimitExceeded"
        \/ Contains(error_str, "tcbs")

\* The exceptions a provider call raises in the model.
Errors ==
    {[type |-> "RateLimitExceeded", text |-> "Too many calls"],
     [type |-> "Exception", text |-> "Rate Limit exceeded"],
     [type |-> "Exception", text |-> "Quá nhiều request"],
     [type |-> "ValueError", text |-> "TCBS: invalid symbol"],
     [type |-> "ConnectionError", text |-> "Connection reset by peer"],
     [type |-> "TimeoutError", text |-> ""]}
NoError == [type |-> "None", text |-> ""]

\* safe_api_call(func, stock_obj, max_retries=...) is called; the loop
\* does not run for max_retries <= 0 and None is returned.
SafeApiCall ==
    /\ sc.pc = "idle"
    /\ sc_log' = <<>>
    /\ IF sc_args.max_retries > 0
       THEN /\ sc' = [pc |-> "func", attempt |-> 0, e |-> NoError]
            /\ sc_result' = sc_result
       ELSE /\ sc' = [pc |-> "returned", attempt |-> 0, e |-> NoError]
            /\ sc_result' = Returned("safe_api_call", PyNone)
    /\ UNCHANGED <<client, vnstock, sc_args>>

\* Mutant of RetryOrRaise: the last-attempt test is off by one
\* (attempt < max_retries).
RetryOrRaiseOneMore(n, e, log) ==
    IF n < sc_args.max_retries
    THEN /\ sc' = [pc |-> "func", attempt |-> n + 1, e |-> NoError]
         /\ sc_log' = Append(log, [did |-> "sleep", e |-> NoError])
         /\ sc_result' = sc_result
    ELSE /\ sc' = [pc |-> "raised", attempt |-> n, e |-> e]
         /\ sc_log' = log
         /\ sc_result' = Raised("safe_api_call", e.type)

\* After the exception e of attempt n, when no alternate call is
\* made or it failed: sleep and go to the next attempt, or re-raise e on
\* the last one.
RetryOrRaise(n, e, log) ==
    IF n < sc_args.max_retries - 1
    THEN /\ sc' = [pc |-> "func", attempt |-> n + 1, e |-> NoError]
         /\ sc_log' = Append(log, [did |-> "sleep", e |-> NoError])
         /\ sc_result' = sc_result
    ELSE /\ sc' = [pc |-> "raised", attempt |-> n, e |-> e]
         /\ sc_log' = log
         /\ sc_result' = Raised("safe_api_call", e.type)

\* One attempt: func(*args, **kwargs) returns (e = NoError) or raises e.
\* A rate limit error of attempt 0 leads to the alternate provider when
\* stock_obj has a symbol.
PrimaryCall(e) ==
    /\ sc.pc = "func"
    /\ LET log == Append(sc_log, [did |-> "func", e |-> e])
       IN  IF e = NoError
           THEN /\ sc' = [sc EXCEPT !.pc = "returned"]
                /\ sc_log' = log
                /\ sc_result' = Returned("safe_api_call", [source |-> "TCBS"])
           ELSE IF sc.attempt = 0 /\ IsRateLimit(e) /\ sc_args.symbol
           THEN /\ sc' = [sc EXCEPT !.pc = "vci", !.e = e]
                /\ sc_log' = log
                /\ sc_result' = sc_result
           ELSE RetryOrRaise(sc.attempt, e, log)
    /\ UNCHANGED <<client, vnstock, sc_args>>

\* new_stock.quote.history(*args, **kwargs) on the alternate provider
\* returns or raises v; its exception is dropped and the retry logic goes
\* on with the exception of the primary provider.
AlternateCall(v) ==
    /\ sc.pc = "vci"
    /\ LET log == Append(sc_log, [did |-> "vci", e |-> v])
       IN  IF v = NoError
           THEN /\ sc' = [sc EXCEPT !.pc = "returned"]
                /\ sc_log' = log
                /\ sc_result' = Returned("safe_api_call", [source |-> "VCI"])
           ELSE RetryOrRaise(sc.attempt, sc.e, log)
    /\ UNCHANGED <<client, vnstock, sc_args>>

MaxCallRetries == 3     \* largest max_retries of safe_api_call
InitSafeCall ==
    /\ Constructed
    /\ NoStages
    /\ NoGetData
    /\ NoVnstock
    /\ tickers = <<"AAA">>
    /\ size = 1
    /\ use_cache = FALSE
    /\ cache_expiry = 1
    /\ max_retries = 1
    /\ use_parallel = FALSE
    /\ \E n \in 0..MaxCallRetries, b \in BOOLEAN :
          sc_args = [max_retries |-> n, symbol |-> b]
    /\ sc = [pc |-> "idle"]
    /\ sc_log = <<>>
    /\ sc_result = NoCall
NextSafeCall ==
    \/ SafeApiCall
    \/ \E e \in Errors \cup {NoError} : PrimaryCall(e)
    \/ \E v \in Errors \cup {NoError} : AlternateCall(v)
SpecSafeCall == InitSafeCall /\ [][NextSafeCall]_vars

(***************************************************************************)
(* Properties.                                                             *)
(***************************************************************************)
\* The cache lookup of the call at position i has been made.
Looked(i) == hist[i].load.done
\* The cache entry the lookup found: its file, and the hour of the lookup.
Found(i) == hist[i].load.file
FoundAt(i) == hist[i].load.at
\* Age of a file in hours at hour t.
Age(file, t) == t - file.mtime
\* An entry that exists and is younger than expiry hours (any age when the
\* expiry is 0).
Unexpired(file, expiry, t) ==
    file.exists /\ (expiry = 0 \/ Age(file, t) < expiry)
\* The call ended in a cache hit: it returned without any HTTP attempt.
CacheHit(i) == pc[i] = "done" /\ res[i].kind = "tuple" /\ hist[i].gets = 0

\* C1: when caching is enabled and the lookup finds a valid, unexpired,
\* readable cache entry for (ticker, size), _fetch_ticker_data returns
\* (ticker, cached content, None) and has issued no HTTP request.
C1_CacheHitNoHttp ==
    \A i \in 1..N :
        ( /\ Looked(i)
          /\ use_cache
          /\ Unexpired(Found(i), cache_expiry, FoundAt(i))
          /\ JsonParses(Found(i).text)
          /\ ~hist[i].load.ioerr )
        => /\ pc[i] = "done"
           /\ res[i] = Tuple(tickers[i], JsonLoad(Found(i).text), "None")
           /\ hist[i].gets = 0

\* C1 witness: a fetch that returned the non-empty content of an entry
\* written an hour or more before the lookup.
C1_Witness ==
    \E i \in 1..N :
        /\ Looked(i) /\ use_cache /\ ~hist[i].load.ioerr
        /\ Unexpired(Found(i), cache_expiry, FoundAt(i))
        /\ Age(Found(i), FoundAt(i)) > 0
        /\ JsonParses(Found(i).text)
        /\ pc[i] = "done"
        /\ Truthy(res[i].data)
        /\ res[i].error = "None"
        /\ hist[i].gets = 0

\* C10: an entry is valid iff it exists and its age is below cache_expiry
\* hours, or it exists and cache_expiry is 0; an entry that is not valid
\* (absent, or of age >= cache_expiry) is never a cache hit, and the fetch
\* goes on to the network (the retry loop, entered whenever max_retries >= 1).
C10_CacheValidity ==
    /\ \A p \in CachePaths :
          IsCacheValid(files[p], cache_expiry, now)
              <=> Unexpired(files[p], cache_expiry, now)
    /\ ~IsCacheValid(NoFile, cache_expiry, now)
    /\ \A i \in 1..N :
          (Looked(i) /\ ~Unexpired(Found(i), cache_expiry, FoundAt(i)))
          => /\ ~CacheHit(i)
             /\ max_retries >= 1 => (pc[i] = "attempt" \/ hist[i].gets >= 1)

\* C10 witness: a lookup that found an entry exactly cache_expiry hours old
\* (cache_expiry > 0), after which the fetch issued an HTTP request.
C10_Witness ==
    \E i \in 1..N :
        /\ Looked(i) /\ use_cache
        /\ Found(i).exists
        /\ cache_expiry > 0
        /\ Age(Found(i), FoundAt(i)) = cache_expiry
        /\ hist[i].gets >= 1

\* C2: every finished _fetch_ticker_data call returned a (ticker, data,
\* error) tuple with exactly one of data and error populated: a non-empty
\* record list and no error, or no data and an error message.
C2_ExactlyOnePopulated ==
    \A i \in 1..N :
        pc[i] = "done" =>
            /\ res[i].kind = "tuple"
            /\ \/ Truthy(res[i].data) /\ res[i].error = "None"
               \/ IsNone(res[i].data) /\ res[i].error # "None"

\* The last HTTP attempt of call i ended in a non-200 status or in a
\* RequestException.
LastFailed(i) == hist[i].last \in {"non200", "reqexc"}
ErrorOf(o) == IF o = "non200" THEN "HTTP error" ELSE "Request error"

\* C7: after an attempt that ended in a non-200 status or a transport
\* exception, with attempts remaining the call has slept once per failed
\* attempt and is about to issue the next attempt; with none remaining it
\* has returned (ticker, None, "HTTP error ..." / "Request error ...") as a
\* value, without a sleep after the last attempt.
C7_RetryOrReturnError ==
    \A i \in 1..N :
        LastFailed(i) =>
            IF hist[i].gets < max_retries
            THEN /\ pc[i] = "attempt"
                 /\ attempt[i] = hist[i].gets
                 /\ hist[i].sleeps = hist[i].gets
                 /\ res[i] = Pending
            ELSE /\ pc[i] = "done"
                 /\ res[i] = Tuple(tickers[i], PyNone, ErrorOf(hist[i].last))
                 /\ hist[i].gets = max_retries
                 /\ hist[i].sleeps = hist[i].gets - 1

\* C7 witness: a call whose every attempt failed, the last with a non-200
\* status, after at least one retry.
C7_Witness ==
    \E i \in 1..N :
        /\ hist[i].last = "non200"
        /\ hist[i].gets >= 2
        /\ hist[i].sleeps >= 1
        /\ pc[i] = "done"
        /\ res[i].error = "HTTP error"

\* C8: after an attempt that returned status 200 with an empty payload the
\* call has returned "No data available" (whatever the retries left), it
\* has not written the cache, and no file the client has written holds an
\* empty record list.
C8_EmptyPayloadTerminal ==
    /\ \A i \in 1..N :
          hist[i].last = "empty" =>
              /\ pc[i] = "done"
              /\ res[i] = Tuple(tickers[i], PyNone, "No data available")
              /\ hist[i].save = "none"
              /\ hist[i].sleeps = hist[i].gets - 1
              /\ \A p \in CachePaths : i \notin writers[p]
    /\ \A p \in CachePaths :
          writers[p] # {} => files[p].text # JsonDump(EmptyData)

\* C8 witness: an empty payload on the first attempt of a call that could
\* have retried, with caching enabled.
C8_Witness ==
    \E i \in 1..N :
        /\ hist[i].last = "empty"
        /\ hist[i].gets = 1
        /\ max_retries >= 2
        /\ use_cache
        /\ pc[i] = "done"

\* The call at position i got non-empty data from an HTTP attempt, with
\* caching enabled, and has returned it.
FetchedData(i) ==
    /\ pc[i] = "done"
    /\ use_cache
    /\ hist[i].gets >= 1
    /\ res[i].kind = "tuple"
    /\ Truthy(res[i].data)
\* The fetch at position i + 1 is of the same ticker (and size) as the one
\* at i, and its cache lookup found an entry within the expiry window.
FollowedWithinWindow(i) ==
    /\ i < N
    /\ tickers[i + 1] = tickers[i]
    /\ Looked(i + 1)
    /\ Unexpired(Found(i + 1), cache_expiry, FoundAt(i + 1))

Ended == mpc # "fetching"
AllFetched == \A k \in 1..N : pc[k] = "done"
NoDataError == "ValueError: Could not retrieve data for any ticker"
\* The fetch at position k returned a non-empty record list.
YieldedData(k) == pc[k] = "done" /\ res[k].kind = "tuple" /\ Truthy(res[k].data)
\* ... whose records all carry the date field the API documents.
Usable(k) ==
    /\ YieldedData(k)
    /\ res[k].error = "None"
    /\ \A n \in 1..Len(res[k].data.items) : "date" \in DOMAIN res[k].data.items[n]
\* The fetch at position k failed by HTTP status, transport exception or
\* empty payload.
ListedFailure(k) ==
    /\ pc[k] = "done"
    /\ res[k].kind = "tuple"
    /\ IsNone(res[k].data)
    /\ res[k].error \in {"HTTP error", "Request error", "No data available"}
\* The rows of the usable fetches at positions k..N, in list order.
RECURSIVE RowsFrom(_)
RowsFrom(k) ==
    IF k > N THEN <<>>
    ELSE (IF Usable(k) THEN Frame(res[k].data) ELSE <<>>) \o RowsFrom(k + 1)
\* Every row of the fetch at position k is in the table tbl.
RowsPresent(k, tbl) ==
    /\ tbl.tag = "list"
    /\ \A n \in 1..Len(res[k].data.items) :
          \E m \in 1..Len(tbl.items) : tbl.items[m] = Frame(res[k].data)[n]

\* C3: with N >= 2 tickers of which exactly one failed (non-200 on all
\* attempts, transport exception or empty payload) and the others yielded
\* usable data, get_data does not raise, what it returns is the rows of
\* exactly the N-1 successful tickers, and it has recorded exactly the one
\* (ticker, reason) failure.
C3_OneFailureOfN ==
    \A j \in 1..N :
        ( /\ N >= 2
          /\ ListedFailure(j)
          /\ \A k \in 1..N : k # j => Usable(k) )
        => /\ mpc # "raised"
           /\ cur = N + 1 => failed_tickers = << <<tickers[j], res[j].error>> >>
           /\ cur = N + 1 => Concat(all_data) = RowsFrom(1)
           /\ mpc = "returned" => raw_data = PyList(RowsFrom(1))

\* C3 witness: get_data has returned after one ticker failed with a
\* non-200 status on both of its attempts and the others succeeded.
C3_Witness ==
    \E j \in 1..N :
        /\ N >= 2
        /\ ListedFailure(j)
        /\ res[j].error = "HTTP error"
        /\ hist[j].gets = 2
        /\ \A k \in 1..N : k # j => Usable(k)
        /\ mpc = "returned"
        /\ Len(raw_data.items) > 0

\* C4: once every ticker has been fetched and get_data has ended, it has
\* raised its "no data" ValueError iff no ticker yielded data, and it has
\* returned whenever some ticker yielded data.
C4_NoDataIffAllFailed ==
    (Ended /\ AllFetched) =>
        /\ (mpc = "raised" /\ exc = NoDataError) <=> (\A k \in 1..N : ~YieldedData(k))
        /\ (\E k \in 1..N : YieldedData(k)) => mpc = "returned"

\* C5: when get_data has ended (every ticker having had an upstream to ask:
\* max_retries >= 1), every ticker whose own fetch yielded usable data has
\* its rows in the returned table, however the other fetches ended.
C5_TickersIndependent ==
    (Ended /\ max_retries >= 1) =>
        \A k \in 1..N :
            Usable(k) => (mpc = "returned" /\ RowsPresent(k, raw_data))

\* What get_data would have done in sequential mode on the cache directory
\* it found, with the same responses.
SeqOutcome == SeqGetData(1, files0, <<>>, <<>>)

\* C6: a parallel get_data ends as the sequential one would on the same
\* ticker list, cache directory and responses: the same raise or return,
\* and on return the same table and the same failures.
C6_ParallelAsSequential ==
    (Ended /\ Parallel /\ AllFetched /\ SeqOutcome.defined) =>
        /\ mpc = SeqOutcome.mpc
        /\ exc = SeqOutcome.exc
        /\ mpc = "returned" =>
              /\ raw_data = SeqOutcome.raw_data
              /\ failed_tickers = SeqOutcome.failed_tickers

\* The function SeqGetData agrees with the sequential runs of the model.
SeqGetDataAgrees ==
    (Ended /\ ~Parallel /\ SeqOutcome.defined) =>
        /\ mpc = SeqOutcome.mpc
        /\ exc = SeqOutcome.exc
        /\ raw_data = SeqOutcome.raw_data
        /\ mpc = "returned" => failed_tickers = SeqOutcome.failed_tickers

\* C6 holds of ticker lists that name no ticker twice.
C6_DistinctTickers ==
    (\A a, b \in 1..N : tickers[a] = tickers[b] => a = b)
        => C6_ParallelAsSequential

(***************************************************************************)
(* Properties of the cache keys.                                           *)
(***************************************************************************)
\* The entry of the fetch at position i: that of (its ticker, the size).
OwnEntry(i) == <<tickers[i], size>>

\* C11: a fetch opens for writing only the entry of (its ticker, its
\* size); every entry no fetch of that very (ticker, size) has written is
\* as get_data found it, the entries of the other sizes and of the other
\* tickers among them; and the file a lookup finds is the one of its own
\* entry (as get_data found it, or as a fetch of the same key left it).
C11_KeyedByTickerAndSize ==
    /\ \A p \in CachePaths : \A i \in writers[p] : p = OwnEntry(i)
    /\ \A p \in CachePaths : writers[p] = {} => files[p] = files0[p]
    /\ \A i \in 1..N :
          Looked(i) => (Found(i) = files0[OwnEntry(i)] \/ writers[OwnEntry(i)] # {})

\* C11 witness: a fetch with size 2 has looked up and then written its
\* entry while the same ticker's size-1 entry and an entry of the other
\* ticker exist.
C11_Witness ==
    \E i \in 1..N :
        /\ size = 2
        /\ Looked(i)
        /\ hist[i].save = "saved"
        /\ files[OwnEntry(i)].text = JsonDump(res[i].data)
        /\ files[<<tickers[i], 1>>].exists
        /\ files[<<tickers[i], 1>>] = files0[<<tickers[i], 1>>]
        /\ \E t \in TickerNames : t # tickers[i] /\ files[<<t, 2>>].exists

(***************************************************************************)
(* Properties of cache I/O failures.                                       *)
(***************************************************************************)
\* The lookup of call i found a file that exists and could not be read
\* (open or read raised) or parsed.
CacheReadFailed(i) ==
    /\ Looked(i)
    /\ use_cache
    /\ Found(i).exists
    /\ (hist[i].load.ioerr \/ ~JsonParses(Found(i).text))
\* The cache write of call i failed, in open() or in json.dump().
CacheWriteFailed(i) == hist[i].save \in {"open failed", "dump failed"}
\* What the handling of the last HTTP response of call i returns.
NetworkResult(i) ==
    AfterAttempt(tickers[i], hist[i].gets - 1, max_retries, hist[i].last).result

\* C12: a call whose lookup found an unreadable or unparseable file is not
\* a cache hit: it goes on to the retry loop and (max_retries >= 1) returns
\* what its last HTTP response gives; a call whose cache write failed has
\* returned (ticker, data, None) with the data of the response; either way
\* the call returned a tuple: nothing was raised into get_data.
C12_CacheFailuresSwallowed ==
    \A i \in 1..N :
        /\ (CacheReadFailed(i) /\ max_retries >= 1) =>
              /\ pc[i] # "load"
              /\ pc[i] = "done" =>
                    /\ hist[i].gets >= 1
                    /\ res[i].kind = "tuple"
                    /\ res[i] = NetworkResult(i)
        /\ CacheWriteFailed(i) =>
              /\ pc[i] = "done"
              /\ res[i] = Tuple(tickers[i], BodyData(tickers[i], hist[i].last), "None")
              /\ Truthy(res[i].data)

\* C12 witness: get_data has returned the data of a call whose lookup found
\* an unparseable file and whose cache write then failed in json.dump.
C12_Witness ==
    \E i \in 1..N :
        /\ CacheReadFailed(i)
        /\ hist[i].save = "dump failed"
        /\ pc[i] = "done"
        /\ Truthy(res[i].data)
        /\ mpc = "returned"

(***************************************************************************)
(* Properties of __init__.                                                 *)
(***************************************************************************)
\* The arguments are invalid: an empty ticker list, a ticker that is not 3
\* characters long, a size <= 0 or a cache expiry < 0.
InvalidArgs ==
    \/ Len(tickers) = 0
    \/ \E k \in 1..Len(tickers) : StrLen(tickers[k]) # 3
    \/ size <= 0
    \/ cache_expiry < 0
ValidationErrors ==
    {"tickers list cannot be empty", "All tickers must be 3 characters in length",
     "size must be positive", "cache_expiry must be non-negative"}

\* C13: called with invalid arguments, the constructor changes nothing on
\* the file system (the cache directory is not created) and ends by raising
\* a validation error.
C13_ValidationBeforeIO ==
    InvalidArgs =>
        /\ cache_dir = cache_dir0
        /\ ipc \in {"constructed", "raised"} =>
              (ipc = "raised" /\ init_error \in ValidationErrors)

(***************************************************************************)
(* Properties of the stages.                                               *)
(***************************************************************************)
\* get_data has returned a table at least once.
GotData == mpc = "returned" \/ "get_data" \in ran
NoRawError == "No data available. Call get_data() first."
NoOhlcvError == "OHLCV data not available. Call ohlcv() first."
NoReturnsError == "Returns data not available. Call calculate_returns() first."
\* The step is a call of a stage method (the record of the last call
\* changes; a call that repeats the last one and raises again changes
\* nothing at all).
StageCalled == call' # call /\ call'.op # "none"

\* C14: every call of a stage method made before its prerequisite stage has
\* returned raises the error naming that stage (get_data for ohlcv; ohlcv
\* for calculate_returns, resample and get_latest_prices; calculate_returns
\* for calculate_volatility and export_to_csv('returns')), and a call that
\* raises such an error leaves raw_data, ohlcv_df and returns_data as they
\* were.
C14_StagesEnforcePrerequisites ==
    [][StageCalled =>
        /\ (call'.op = "ohlcv" /\ ~GotData) => call'.raises = NoRawError
        /\ ( /\ call'.op \in {"calculate_returns", "resample", "get_latest_prices"}
             /\ "ohlcv" \notin ran ) => call'.raises = NoOhlcvError
        /\ ( /\ \/ call'.op = "calculate_volatility"
                \/ (call'.op = "export_to_csv" /\ call'.result.data_type = "returns")
             /\ "calculate_returns" \notin ran ) => call'.raises = NoReturnsError
        /\ call'.raises \in {NoRawError, NoOhlcvError, NoReturnsError} =>
              UNCHANGED <<raw_data, ohlcv_df, returns_data>>
    ]_vars

\* C14 witness: with raw data fetched and normalised but no returns
\* computed, calculate_volatility has raised the error naming
\* calculate_returns.
C14_Witness ==
    /\ call = Raised("calculate_volatility", NoReturnsError)
    /\ GotData
    /\ "ohlcv" \in ran
    /\ ~Unavailable(ohlcv_df)
    /\ "calculate_returns" \notin ran
    /\ IsNone(returns_data)

\* C15: the (Symbol, Date) pairs of the table ohlcv() has built are unique.
C15_SymbolDateUnique ==
    ~IsNone(ohlcv_df) =>
        \A i, j \in 1..Len(ohlcv_df.items) :
            ( /\ ohlcv_df.items[i]["Symbol"] = ohlcv_df.items[j]["Symbol"]
              /\ ohlcv_df.items[i]["Date"] = ohlcv_df.items[j]["Date"] ) => i = j

(***************************************************************************)
(* Properties of calculate_returns.                                        *)
(***************************************************************************)
\* For each row of table rows: how many rows of its symbol are dated no
\* later (its place in the symbol's date-sorted series, counted from 1).
SeriesPlace(rows) ==
    AsSeq([j \in 1..Len(rows) |->
        Cardinality({x \in 1..Len(rows) :
            /\ rows[x]["Symbol"] = rows[j]["Symbol"]
            /\ rows[x]["Date"][2] <= rows[j]["Date"][2]})])
\* The return over p rows that the row at index j of the input table is to
\* get: undefined within the first p rows of its symbol's series, else the
\* relative change of Adj Close from the row p places earlier in it.
ExpectedReturn(rows, place, j, p) ==
    IF place[j] <= p THEN NaN
    ELSE LET x == CHOOSE x \in 1..Len(rows) :
                     /\ rows[x]["Symbol"] = rows[j]["Symbol"]
                     /\ place[x] = place[j] - p
         IN  Ratio(rows[j]["Adj Close"] - rows[x]["Adj Close"], rows[x]["Adj Close"])
\* The index in the input table of the row with the key of row r.
InputIndex(rows, r) ==
    CHOOSE j \in 1..Len(rows) :
        rows[j]["Symbol"] = r["Symbol"] /\ rows[j]["Date"] = r["Date"]
\* calculate_returns has computed returns_data from ohlcv_df.
ReturnsComputed == ~IsNone(returns_data) /\ ~IsNone(ohlcv_df)

\* C16: the table calculate_returns builds has the rows of the OHLCV table
\* (as many, with the same values in the existing columns) in (Symbol,
\* Date) order, exactly the columns 1d%, 1w%, 1m%, 6m% added, and in each
\* row a 1d% that is undefined for the first row of the symbol's series
\* and else the relative change of Adj Close from the previous row of the
\* same symbol, whatever the row order of the OHLCV table.
C16_ReturnsAddFourColumns ==
    ReturnsComputed =>
        LET inp == ohlcv_df.items
            out == returns_data.items
            place == SeriesPlace(inp)
        IN  /\ Len(out) = Len(inp)
            /\ \A i \in 1..Len(out) :
                  LET j == InputIndex(inp, out[i])
                  IN  /\ DOMAIN out[i] = DOMAIN inp[j] \cup {"1d%", "1w%", "1m%", "6m%"}
                      /\ Cardinality(DOMAIN out[i]) = Cardinality(DOMAIN inp[j]) + 4
                      /\ \A c \in DOMAIN inp[j] : out[i][c] = inp[j][c]
                      /\ out[i]["1d%"] = ExpectedReturn(inp, place, j, 1)
            /\ \A i \in 1..(Len(out) - 1) : ~KeyLess(out[i + 1], out[i])

\* C16 witness: returns computed from a table of two symbols whose rows are
\* in descending date order, the BBB block first.
C16_Witness ==
    /\ ReturnsComputed
    /\ Len(ohlcv_df.items) > 3
    /\ ohlcv_df.items[1]["Symbol"] = "BBB"
    /\ ohlcv_df.items[1]["Date"][2] > ohlcv_df.items[2]["Date"][2]
    /\ \E i \in 1..Len(returns_data.items) :
          /\ returns_data.items[i]["Symbol"] = "AAA"
          /\ returns_data.items[i]["1d%"] # NaN

\* C17: for each of the periods 1, 5, 20, 120 (columns 1d%, 1w%, 1m%, 6m%)
\* the column is undefined in the first p rows of each symbol's date-sorted
\* series (so in all rows of a symbol with at most p rows) and in every
\* later row is the relative change of Adj Close from the row p places
\* earlier in the same symbol's series.
C17_ReturnPeriods ==
    ReturnsComputed =>
        LET inp == ohlcv_df.items
            out == returns_data.items
            place == SeriesPlace(inp)
            col == <<"1d%", "1w%", "1m%", "6m%">>
            per == <<1, 5, 20, 120>>
        IN  \A k \in 1..4 : \A i \in 1..Len(out) :
                LET j == InputIndex(inp, out[i])
                IN  /\ out[i][col[k]] = ExpectedReturn(inp, place, j, per[k])
                    /\ place[j] <= per[k] => out[i][col[k]] = NaN
                    /\ place[j] > per[k] => out[i][col[k]] # NaN

\* C17 witness: returns of a symbol with more than 120 rows, whose 6m% is
\* defined in its last row, next to a symbol with fewer than 5 rows.
C17_Witness ==
    /\ ReturnsComputed
    /\ \E i \in 1..Len(returns_data.items) :
          /\ returns_data.items[i]["Symbol"] = "AAA"
          /\ returns_data.items[i]["Date"][2] > 120
          /\ returns_data.items[i]["6m%"] # NaN
    /\ \E i \in 1..Len(returns_data.items) :
          /\ returns_data.items[i]["Symbol"] = "BBB"
          /\ returns_data.items[i]["1d%"] # NaN
          /\ returns_data.items[i]["1w%"] = NaN

(***************************************************************************)
(* Properties of calculate_volatility.                                     *)
(***************************************************************************)
\* calculate_volatility has returned a table.
VolatilityComputed ==
    call.op = "calculate_volatility" /\ call.raises = "None"

\* C18: in the table calculate_volatility(window) returns, exactly the
\* first window-1 rows of each symbol's series have an undefined
\* volatility: the row in place window of the series (position window-1
\* counted from 0) and every later row has a defined one.
C18_VolatilityUndefinedRows ==
    VolatilityComputed =>
        LET out == call.result.table
            window == call.result.window
            place == SeriesPlace(out)
        IN  \A i \in 1..Len(out) :
                /\ place[i] <= window - 1 => out[i]["volatility"] = NaN
                /\ place[i] >= window => out[i]["volatility"] # NaN

(***************************************************************************)
(* Properties of get_stock_data_vnstock.                                   *)
(***************************************************************************)
\* The step in which the chunks of a ticker are combined into a table.
ChunksCombined ==
    /\ vn.pc \in {"chunks", "fetched"}
    /\ vn.ticker_data # <<>>
    /\ vn'.pc \in {"chunks", "single", "combine"}
    /\ Len(vn'.all_data) = Len(vn.all_data) + 1
\* The Date values of a table.
DatesOf(rows) == {rows[k]["Date"] : k \in 1..Len(rows)}

FirstAttemptFailed ==
    /\ Len(sc_log) >= 1
    /\ sc_log[1].did = "func"
    /\ sc_log[1].e # NoError
\* The places of sc_log that are calls of the alternate provider.
AlternateCalls == {k \in 1..Len(sc_log) : sc_log[k].did = "vci"}

\* C20: once the first attempt against the primary provider has failed,
\* with whatever error, the next thing safe_api_call does is a call of the
\* alternate provider, it makes exactly one such call, returns its result
\* when it succeeds, and when it fails goes on to sleep and retry the
\* primary provider if attempts remain.
C20_AlternateOnAnyFirstError ==
    FirstAttemptFailed =>
        /\ Len(sc_log) >= 2 => sc_log[2].did = "vci"
        /\ sc.pc \in {"returned", "raised"} => Cardinality(AlternateCalls) = 1
        /\ Cardinality(AlternateCalls) <= 1
        /\ \A k \in AlternateCalls :
              IF sc_log[k].e = NoError
              THEN /\ k = Len(sc_log)
                   /\ sc_result = Returned("safe_api_call", [source |-> "VCI"])
              ELSE sc_args.max_retries > 1 =>
                       /\ Len(sc_log) > k
                       /\ sc_log[k + 1].did = "sleep"

(***************************************************************************)
(* Properties of the chunking of get_stock_data_vnstock.                   *)
(***************************************************************************)
\* The call of get_stock_data_vnstock has returned or raised.
VnDone == vn.pc \in {"returned", "raised"}
\* The requests made for the ticker at position i, in the order made.
RequestsOf(i) == SelectSeq(vn.requested, LAMBDA r : r.i = i)
\* The range asked for is longer than 365 days.
LongRange == DaysBetween(vn_args.start_date, vn_args.end_date) > 365
\* The tables the requests rq of ticker t returned, in the order of rq.
RECURSIVE ChunkTables(_, _)
ChunkTables(t, rq) ==
    IF rq = <<>> THEN <<>>
    ELSE WithChunk(<<>>, GetSinglePeriodData(t, rq[1].start, rq[1].end))
         \o ChunkTables(t, Tail(rq))

\* C21: a range of more than 365 days is requested for each ticker in
\* chunks of at most one year, the first starting at start_date, each next
\* one starting where the one before ended, the last ending at end_date;
\* a range of 365 days or less in one request; the chunks of a ticker are
\* kept in the order requested, and each ticker's table has no (Symbol,
\* Date) twice and is in ascending order of Date.
C21_YearlyChunksInOrder ==
    /\ vn.pc \in {"chunks", "fetched"} =>
          vn.ticker_data = ChunkTables(vn_args.tickers[vn.i], RequestsOf(vn.i))
    /\ VnDone =>
          /\ \A i \in 1..Len(vn_args.tickers) :
                LET rq == RequestsOf(i)
                IN  IF LongRange
                    THEN /\ Len(rq) >= 1
                         /\ rq[1].start = vn_args.start_date
                         /\ rq[Len(rq)].end = vn_args.end_date
                         /\ \A k \in 1..(Len(rq) - 1) : rq[k + 1].start = rq[k].end
                         /\ \A k \in 1..Len(rq) :
                               DaysBetween(rq[k].start, rq[k].end) \in 1..366
                    ELSE rq = <<[i |-> i, start |-> vn_args.start_date,
                                 end |-> vn_args.end_date]>>
          /\ \A k \in 1..(Len(vn.requested) - 1) :
                vn.requested[k].i <= vn.requested[k + 1].i
          /\ \A n \in 1..Len(vn.all_data) :
                \A a, b \in 1..Len(vn.all_data[n]) :
                    a < b => /\ vn.all_data[n][a]["Symbol"] = vn.all_data[n][b]["Symbol"]
                             /\ TimestampLess(vn.all_data[n][a]["Date"],
                                              vn.all_data[n][b]["Date"])

\* C28: when a call over a range of more than 365 days is over, the chunks
\* requested for each ticker each end after they start, start later one
\* after the other, and every day from start_date to end_date lies in one
\* of them.
C28_ChunksCoverRange ==
    (VnDone /\ LongRange) =>
        \A i \in 1..Len(vn_args.tickers) :
            LET rq == RequestsOf(i)
            IN  /\ \A k \in 1..Len(rq) : ToOrdinal(rq[k].start) < ToOrdinal(rq[k].end)
                /\ \A k \in 1..(Len(rq) - 1) :
                      ToOrdinal(rq[k].start) < ToOrdinal(rq[k + 1].start)
                /\ \A d \in ToOrdinal(vn_args.start_date)..ToOrdinal(vn_args.end_date) :
                      \E k \in 1..Len(rq) :
                          ToOrdinal(rq[k].start) <= d /\ d <= ToOrdinal(rq[k].end)

(***************************************************************************)
(* Properties of ohlcv().                                                  *)
(***************************************************************************)
\* The required source columns no row of raw_data has.
LackingColumns ==
    {c \in {"date", "code", "open", "high", "low", "close", "adClose", "nmVolume"} :
        \A k \in 1..Len(raw_data.items) : c \notin DOMAIN raw_data.items[k]}
\* The source column a column of the OHLCV table is taken from.
SourceOf(c) ==
    IF c = "Date" THEN "date" ELSE IF c = "Symbol" THEN "code"
    ELSE IF c = "Open" THEN "open" ELSE IF c = "High" THEN "high"
    ELSE IF c = "Low" THEN "low" ELSE IF c = "Close" THEN "close"
    ELSE IF c = "Adj Close" THEN "adClose" ELSE "nmVolume"

\* C22: a call of ohlcv() on a raw table lacking required columns raises an
\* error whose message names those columns and no other required column,
\* and leaves ohlcv_df as it was; on a raw table with all of them it
\* stores a table of as many rows as the raw one, with exactly the index
\* levels Symbol, Date and the columns Open, High, Low, Close, Adj Close,
\* Volume, holding the values of the source columns.
C22_OhlcvValidatesColumns ==
    [][(call'.op = "ohlcv" /\ ~Unavailable(raw_data)) =>
          IF LackingColumns # {}
          THEN /\ Contains(call'.raises, "Data is missing required columns")
               /\ \A c \in {"date", "code", "open", "high", "low", "close",
                              "adClose", "nmVolume"} :
                     Contains(call'.raises, "'" \o c \o "'") <=> c \in LackingColumns
               /\ ohlcv_df' = ohlcv_df
          ELSE /\ call'.raises = "None"
               /\ Len(ohlcv_df'.items) = Len(raw_data.items)
               /\ \A k \in 1..Len(raw_data.items) :
                     /\ DOMAIN ohlcv_df'.items[k] =
                            {"Symbol", "Date", "Open", "High", "Low", "Close",
                             "Adj Close", "Volume"}
                     /\ \A c \in DOMAIN ohlcv_df'.items[k] :
                           ohlcv_df'.items[k][c] = raw_data.items[k][SourceOf(c)]]_vars

\* C22 witness: ohlcv() has raised on a raw table lacking high and nmVolume
\* while the table of an earlier call is in place.
C22_Witness ==
    /\ call.op = "ohlcv"
    /\ call.raises = "Data is missing required columns: ['high', 'nmVolume']"
    /\ ~IsNone(ohlcv_df)
    /\ "floor" \in Columns(raw_data.items)

(***************************************************************************)
(* Properties of the parallel fetches.                                     *)
(***************************************************************************)
\* The fetches that have the cache file p open for writing.
Writing(p) ==
    {i \in 1..N : pc[i] = "dump" /\ GetCachePath(tickers[i], size) = p}

\* C23: in a parallel get_data each cache file is opened for writing by one
\* fetch at most, and no two fetches have the same cache file open for
\* writing at the same time.
C23_OneWriterPerCacheFile ==
    Parallel =>
        \A p \in CachePaths :
            /\ Cardinality(writers[p]) <= 1
            /\ Cardinality(Writing(p)) <= 1

(***************************************************************************)
(* Properties of the HTTP attempts of one fetch.                           *)
(***************************************************************************)
\* The call at position i is over and its cache lookup was a miss.
MissOver(i) == pc[i] = "done" /\ Looked(i) /\ ~CacheHit(i)

\* C24: a call of _fetch_ticker_data that missed the cache has issued
\* between 1 and max_retries GETs when it is over; exactly max_retries,
\* with one sleep less, when its last (so every) attempt ended in a non-200
\* status or a transport exception; and after an attempt that got status
\* 200 it issues no further GET.
C24_GetCountWithinRetries ==
    \A i \in 1..N :
        /\ MissOver(i) =>
              /\ hist[i].gets >= 1
              /\ hist[i].gets <= max_retries
              /\ LastFailed(i) => /\ hist[i].gets = max_retries
                                  /\ hist[i].sleeps = hist[i].gets - 1
        /\ (hist[i].gets >= 1 /\ StatusOf(hist[i].last) = 200) =>
              pc[i] \in {"done", "dump"}

(***************************************************************************)
(* Properties of the exceptions of one HTTP attempt.                       *)
(***************************************************************************)
\* The call at position i has returned (ticker, None, "Unexpected error ...")
\* right after its last attempt: no sleep follows that attempt, nothing was
\* written to the cache and the cache file is as the call found it.
EndedUnexpected(i) ==
    /\ pc[i] = "done"
    /\ res[i] = Tuple(tickers[i], PyNone, "Unexpected error")
    /\ hist[i].sleeps = hist[i].gets - 1
    /\ hist[i].save = "none"
    /\ files[GetCachePath(tickers[i], size)] = Found(i)
\* The last attempt of the call at position i was treated as a transport
\* failure: retried after a sleep while attempts remain, else returned as
\* (ticker, None, "Request error ...").
TreatedAsRequestError(i) ==
    /\ hist[i].save = "none"
    /\ IF hist[i].gets < max_retries
          THEN pc[i] = "attempt" /\ hist[i].sleeps = hist[i].gets
          ELSE /\ pc[i] = "done"
               /\ res[i] = Tuple(tickers[i], PyNone, "Request error")
               /\ hist[i].sleeps = hist[i].gets - 1

\* C25: an attempt that raises an exception which is not a RequestException
\* ends the call at once: it returns (ticker, None, "Unexpected error ...")
\* with no further attempt even when retries remain, no sleep and no cache
\* write.  A 200 response whose body is not valid JSON is such an exception
\* only where res.json() raises a plain ValueError; where it raises the
\* requests library's JSONDecodeError, a RequestException, the attempt is
\* retried and reported as a request error.
C25_OtherExceptionIsTerminal ==
    \A i \in 1..N :
        /\ RaisesOther(hist[i].last) => EndedUnexpected(i)
        /\ hist[i].last = "jsonreqexc" => TreatedAsRequestError(i)
\* A call with a retry left whose first attempt raised AttributeError on a
\* JSON body that is not an object, and returned the unexpected error.
C25_Witness ==
    \E i \in 1..N :
        /\ max_retries = 2
        /\ hist[i].gets = 1
        /\ hist[i].last = "nonobject"
        /\ EndedUnexpected(i)
\* C25 as stated: every 200 response whose body is not valid JSON ends the
\* call with the unexpected error, like any exception that is not a
\* transport exception.
C25_InvalidJsonIsTerminal ==
    \A i \in 1..N :
        (RaisesOther(hist[i].last) \/ hist[i].last = "jsonreqexc") =>
            EndedUnexpected(i)

(***************************************************************************)
(* Properties of the attributes raw_data, ohlcv_df and returns_data.       *)
(***************************************************************************)
\* The step is part of a get_data call that does not return in it: the call
\* is entered, advances, or raises.
GetDataNotReturning ==
    \/ mpc # "fetching" /\ mpc' = "fetching"
    \/ mpc = "fetching" /\ mpc' # "returned"
\* The step is a get_data call returning.
GetDataReturns == mpc = "fetching" /\ mpc' = "returned"
\* The step is a call of the stage method op that returns.
StageReturns(op) == call'.op = op /\ call'.raises = "None"

\* C26: no step of a get_data call that does not return changes raw_data,
\* ohlcv_df or returns_data, so a call that raises because no ticker yielded
\* data leaves the three as they were before it; raw_data changes only in
\* the return of get_data, ohlcv_df only in a call of ohlcv() that returns
\* and returns_data only in a call of calculate_returns() that returns.
C26_AttributesOnlySetBySuccess ==
    [][ /\ GetDataNotReturning => UNCHANGED <<raw_data, ohlcv_df, returns_data>>
        /\ (mpc = "fetching" /\ mpc' = "raised" /\ exc' = NoDataError) =>
               UNCHANGED <<raw_data, ohlcv_df, returns_data>>
        /\ raw_data' # raw_data => GetDataReturns
        /\ ohlcv_df' # ohlcv_df => StageReturns("ohlcv")
        /\ returns_data' # returns_data => StageReturns("calculate_returns")
      ]_vars
\* A get_data call that raised for want of data on a client that holds the
\* three tables of an earlier run of the pipeline.
C26_Witness ==
    /\ mpc = "raised"
    /\ exc = NoDataError
    /\ ~Unavailable(raw_data)
    /\ ~Unavailable(ohlcv_df)
    /\ ~Unavailable(returns_data)

(***************************************************************************)
(* Properties of the attempts of safe_api_call.                            *)
(***************************************************************************)
\* The places of sc_log that are calls of the primary provider, sleeps, and
\* provider calls that returned.
PrimaryCalls == {k \in 1..Len(sc_log) : sc_log[k].did = "func"}
BackoffSleeps == {k \in 1..Len(sc_log) : sc_log[k].did = "sleep"}
Successes ==
    {k \in 1..Len(sc_log) : sc_log[k].did \in {"func", "vci"} /\ sc_log[k].e = NoError}
\* The exception of the last call of the primary provider so far.
LastPrimaryError ==
    sc_log[CHOOSE k \in PrimaryCalls : \A j \in PrimaryCalls : j <= k].e
\* What safe_api_call returns for a success at place k of sc_log.
ResultOf(k) == [source |-> IF sc_log[k].did = "func" THEN "TCBS" ELSE "VCI"]

\* C27: in a call of safe_api_call with max_retries >= 1 the primary
\* provider is called at most max_retries times; the alternate provider is
\* called at most once, right after the failure of attempt 0; the first
\* provider call that succeeds ends the call, which returns its result; and
\* the call raises only when every provider call has failed, after exactly
\* max_retries calls of the primary provider and max_retries - 1 sleeps,
\* and what it raises is the exception of the last primary call.
C27_BoundedAttemptsLastErrorRaised ==
    sc_args.max_retries >= 1 =>
        /\ Cardinality(PrimaryCalls) <= sc_args.max_retries
        /\ Cardinality(AlternateCalls) <= 1
        /\ \A k \in AlternateCalls : k = 2 /\ FirstAttemptFailed
        /\ \A k \in Successes :
              /\ k = Len(sc_log)
              /\ sc.pc = "returned"
              /\ sc_result = Returned("safe_api_call", ResultOf(k))
        /\ sc.pc = "returned" => Successes # {}
        /\ sc.pc = "raised" =>
              /\ Successes = {}
              /\ Cardinality(PrimaryCalls) = sc_args.max_retries
              /\ Cardinality(BackoffSleeps) = sc_args.max_retries - 1
              /\ sc.e = LastPrimaryError
              /\ sc_result = Raised("safe_api_call", LastPrimaryError.type)
        /\ ( /\ Cardinality(PrimaryCalls) = sc_args.max_retries
             /\ Successes = {}
             /\ sc.pc # "vci" ) => sc.pc = "raised"
\* Three failed calls of the primary provider and a failed call of the
\* alternate one, the last primary error differing from the first.
C27_Witness ==
    /\ sc_args.max_retries = 3
    /\ sc.pc = "raised"
    /\ AlternateCalls # {}
    /\ sc_log[1].e.type = "RateLimitExceeded"
    /\ sc_result = Raised("safe_api_call", "ConnectionError")

====
